---- MODULE Spec2Model ----
(***************************************************************************)
(* Model of the credential-lifecycle guard of kimi_vault/client.py         *)
(* (class GmailClient): construction, the proactive freshness check        *)
(* _ensure_valid_token, the forced refresh _refresh_token, the retrying    *)
(* call wrapper _execute_with_retry and the public method get_profile.     *)
(*                                                                         *)
(* It also models the key-encryption layer of nakimi/core/yubikey.py       *)
(* (class YubiKeyManager and its mock): environment and device detection,  *)
(* encrypt_age_key / decrypt_age_key, verify_pin, change_pin and           *)
(* get_slot_info and get_diagnostics; the resolution of the secrets file   *)
(* (GmailClient._resolve_secrets_file); and the software identity of       *)
(* kimi_vault/crypto.py (class VaultCrypto): generate_key and decrypt.     *)
(*                                                                         *)
(* Python values are encoded with one shape per kind:                      *)
(*   Optional[x]   the empty sequence << >> (None) or <<x>>                *)
(*   str           a sequence of tokens; `w in s` is token membership      *)
(*   exception     a record [type, msg, status]; NoExc = nothing raised    *)
(***************************************************************************)
EXTENDS Integers, Sequences, FiniteSets, TLC

\* The guard (GmailClient): the object's fields, the clock, and the last call
\* with its arguments.
VARIABLES constructed, creds, auth_error, service, secrets_data, now, last, args

\* The key-encryption layer (YubiKeyManager): the host, the object's two
\* memo fields, and the last call.
VARIABLES host, ykman_available, yubikey_present, yk_last

\* The manager's configuration flag (config.yubikey_enabled), the identity
\* files left on disk, the ciphertext the caller keeps with its key, and the
\* last call of a wrapping, PIN or slot operation.
VARIABLES yubikey_enabled, identity_files, wrapped, kel_last

\* The mock manager (MockYubiKeyManager): its dict, the ciphertexts its
\* caller keeps with their keys, and its last call.
VARIABLES mock_encrypted_keys, mock_issued, mock_last

\* The last call of get_diagnostics and the last call of
\* GmailClient._resolve_secrets_file.
VARIABLES diag_last, resolve_last

\* The software identity (VaultCrypto): the private-key file and the
\* public-key file on disk (<< >> = no such file), the temporary plaintext
\* files on disk, and the last call.
VARIABLES key_file, key_pub_file, temp_files, crypto_last

gvars == <<constructed, creds, auth_error, service, secrets_data, now, last, args>>

kelvars == <<yubikey_enabled, identity_files, wrapped, kel_last>>

mockvars == <<mock_encrypted_keys, mock_issued, mock_last>>

ykvars == <<host, ykman_available, yubikey_present, yk_last, kelvars, mockvars>>

cryptovars == <<key_file, key_pub_file, temp_files, crypto_last>>

vaultvars == <<diag_last, resolve_last, cryptovars>>

vars == <<gvars, ykvars, vaultvars>>

\* ---------------------------------------------------------------- bounds
\* The clock advances at most MaxTicks times.
MaxTicks == 3

\* The clock advances in steps of this many seconds.
TickSteps == {300}

\* The latest time the clock reaches (seconds since the model's epoch).
MaxNow == MaxTicks * 300

\* decrypt_age_key is followed until it has left this many identity files.
MaxLeftBehind == 1

\* The mock manager's encrypt_age_key is called at most this many times.
MaxWraps == 4

\* decrypt is followed until this many temporary plaintext files are on disk.
MaxTempFiles == 2

\* Lifetimes (seconds) the token endpoint may grant; << >> = no expiry sent.
Lifetimes == {<< >>, <<30>>, <<600>>}

\* -------------------------------------------------------- program constants
\* client.py:132  "expires_in < 300"
SafetyMargin == 300

\* client.py:190 / 206  the authorization-failure status
Unauthorized == 401

\* --------------------------------------------------------------- exceptions
NoExc == [type |-> "none", msg |-> << >>, status |-> 0]

\* class GmailAuthError(Exception)
GmailAuthError(m) == [type |-> "GmailAuthError", msg |-> m, status |-> 0]

\* googleapiclient.errors.HttpError: the only exception carrying .resp.status
HttpError(s) == [type |-> "HttpError", msg |-> <<"HttpError">>, status |-> s]

\* str(e)
Str(e) == e.msg

\* `w in s` on strings
Contains(s, w) == \E i \in 1..Len(s) : s[i] = w

\* The message of the error raised on a revoked refresh token (client.py:151)
RevokedMsg == <<"Refresh token expired or revoked.", "Need to re-authorize with Gmail.">>

NoError == << >>

\* What creds.refresh(Request()) may raise.
RefreshFailures ==
    { [type |-> "RefreshError", msg |-> <<"invalid_grant", "Token has been expired or revoked.">>, status |-> 0],
      [type |-> "RefreshError", msg |-> <<"invalid_client">>, status |-> 0],
      [type |-> "TransportError", msg |-> <<"timeout">>, status |-> 0] }

\* Outcomes of creds.refresh(Request()): success with a granted lifetime, or
\* one of the failures.
RefreshOutcomes ==
    { [ok |-> TRUE, lifetime |-> l, exc |-> NoExc] : l \in Lifetimes }
    \cup { [ok |-> FALSE, lifetime |-> << >>, exc |-> e] : e \in RefreshFailures }

\* Outcomes of one invocation of the wrapped operation api_call(): NoExc is
\* a normal return of data.
ApiOutcomes ==
    { NoExc, HttpError(401), HttpError(403), HttpError(429), HttpError(500),
      [type |-> "ConnectionError", msg |-> <<"connection reset">>, status |-> 0] }

\* ------------------------------------------------------------ the call log
\* One entry per invocation of the wrapped operation or of creds.refresh:
\*   out        what the invocation produced (NoExc = success)
\*   raised     what the enclosing method (_refresh_token) raised for it
\*   err_after  _auth_error right after the invocation was handled there
OpEv(o, err) == [ev |-> "op", out |-> o, raised |-> o, err_after |-> err]

RefreshEv(sig, raised, err) ==
    [ev |-> "refresh", out |-> sig, raised |-> raised, err_after |-> err]

\* A method's result: the object after it, the value returned ("-" when it
\* raised), the exception raised and the invocations it made.
Result(s, ret, exc, log) == [self |-> s, ret |-> ret, exc |-> exc, log |-> log]

\* ------------------------------------------------------------- the object
Self == [creds |-> creds, auth_error |-> auth_error,
         service |-> service, secrets_data |-> secrets_data]

\* GmailClient.__init__ lines 67-71, before _authenticate()
Fresh == [creds |-> << >>, auth_error |-> NoError,
          service |-> << >>, secrets_data |-> << >>]

\* ---------------------------------------------------------- _refresh_token
\* Variant of _refresh_token that leaves _auth_error alone on success.
RefreshToken_KeepError(self, t, r) ==
    IF self.creds = << >>
    THEN Result(self, "-", GmailAuthError(<<"No credentials available to refresh">>), << >>)
    ELSE IF r.ok
         THEN LET c  == [token |-> "fresh",
                         expiry |-> IF r.lifetime = << >> THEN << >>
                                    ELSE <<t + r.lifetime[1]>>,
                         valid |-> TRUE]
                  s2 == [self EXCEPT !.creds = <<c>>]
              IN Result(s2, "None", NoExc, <<RefreshEv(NoExc, NoExc, s2.auth_error)>>)
         ELSE LET raised == IF Contains(Str(r.exc), "invalid_grant")
                            THEN GmailAuthError(RevokedMsg)
                            ELSE r.exc
              IN Result(self, "-", raised, <<RefreshEv(r.exc, raised, self.auth_error)>>)

\* Variant of _refresh_token that reports every failure as a revocation.
RefreshToken_AllRevoked(self, t, r) ==
    IF self.creds = << >>
    THEN Result(self, "-", GmailAuthError(<<"No credentials available to refresh">>), << >>)
    ELSE IF r.ok
         THEN LET c  == [token |-> "fresh",
                         expiry |-> IF r.lifetime = << >> THEN << >>
                                    ELSE <<t + r.lifetime[1]>>,
                         valid |-> TRUE]
                  s2 == [self EXCEPT !.creds = <<c>>, !.auth_error = NoError]
              IN Result(s2, "None", NoExc, <<RefreshEv(NoExc, NoExc, s2.auth_error)>>)
         ELSE LET raised == GmailAuthError(RevokedMsg)
              IN Result(self, "-", raised, <<RefreshEv(r.exc, raised, self.auth_error)>>)

RefreshToken(self, t, r) ==
    IF self.creds = << >>
    THEN Result(self, "-", GmailAuthError(<<"No credentials available to refresh">>), << >>)
    ELSE IF r.ok
         THEN LET c  == [token |-> "fresh",
                         expiry |-> IF r.lifetime = << >> THEN << >>
                                    ELSE <<t + r.lifetime[1]>>,
                         valid |-> TRUE]
                  s2 == [self EXCEPT !.creds = <<c>>, !.auth_error = NoError]
              IN Result(s2, "None", NoExc, <<RefreshEv(NoExc, NoExc, s2.auth_error)>>)
         ELSE LET raised == IF Contains(Str(r.exc), "invalid_grant")
                            THEN GmailAuthError(RevokedMsg)
                            ELSE r.exc
              IN Result(self, "-", raised, <<RefreshEv(r.exc, raised, self.auth_error)>>)

\* Variant of _ensure_valid_token that raises without storing the reason.
EnsureValidToken_NoRecord(self, t, r) ==
    IF self.creds = << >>
    THEN IF self.auth_error # NoError
         THEN Result(self, "-", GmailAuthError(self.auth_error), << >>)
         ELSE Result(self, "None", NoExc, << >>)
    ELSE LET c == self.creds[1]
             expires_in == IF c.expiry # << >> THEN c.expiry[1] - t ELSE 0
         IN IF ~c.valid \/ expires_in < SafetyMargin
            THEN LET rr == RefreshToken(self, t, r)
                 IN IF rr.exc = NoExc
                    THEN rr
                    ELSE LET error_msg == <<"Token refresh failed:">> \o Str(rr.exc)
                         IN Result(rr.self, "-", GmailAuthError(error_msg), rr.log)
            ELSE Result(self, "None", NoExc, << >>)

\* Variant of _ensure_valid_token that refreshes whatever the expiry.
EnsureValidToken_AlwaysRefresh(self, t, r) ==
    IF self.creds = << >>
    THEN IF self.auth_error # NoError
         THEN Result(self, "-", GmailAuthError(self.auth_error), << >>)
         ELSE Result(self, "None", NoExc, << >>)
    ELSE LET c == self.creds[1]
             expires_in == IF c.expiry # << >> THEN c.expiry[1] - t ELSE 0
         IN IF TRUE
            THEN LET rr == RefreshToken(self, t, r)
                 IN IF rr.exc = NoExc
                    THEN rr
                    ELSE LET error_msg == <<"Token refresh failed:">> \o Str(rr.exc)
                         IN Result([rr.self EXCEPT !.auth_error = error_msg], "-",
                                   GmailAuthError(error_msg), rr.log)
            ELSE Result(self, "None", NoExc, << >>)

\* Variant of _ensure_valid_token that looks at the valid flag only.
EnsureValidToken_IgnoreExpiry(self, t, r) ==
    IF self.creds = << >>
    THEN IF self.auth_error # NoError
         THEN Result(self, "-", GmailAuthError(self.auth_error), << >>)
         ELSE Result(self, "None", NoExc, << >>)
    ELSE LET c == self.creds[1]
             expires_in == IF c.expiry # << >> THEN c.expiry[1] - t ELSE 0
         IN IF ~c.valid
            THEN LET rr == RefreshToken(self, t, r)
                 IN IF rr.exc = NoExc
                    THEN rr
                    ELSE LET error_msg == <<"Token refresh failed:">> \o Str(rr.exc)
                         IN Result([rr.self EXCEPT !.auth_error = error_msg], "-",
                                   GmailAuthError(error_msg), rr.log)
            ELSE Result(self, "None", NoExc, << >>)

\* Variant of _ensure_valid_token that takes an absent expiry as far away.
EnsureValidToken_AbsentExpiryIsFresh(self, t, r) ==
    IF self.creds = << >>
    THEN IF self.auth_error # NoError
         THEN Result(self, "-", GmailAuthError(self.auth_error), << >>)
         ELSE Result(self, "None", NoExc, << >>)
    ELSE LET c == self.creds[1]
             expires_in == IF c.expiry # << >> THEN c.expiry[1] - t ELSE SafetyMargin
         IN IF ~c.valid \/ expires_in < SafetyMargin
            THEN LET rr == RefreshToken(self, t, r)
                 IN IF rr.exc = NoExc
                    THEN rr
                    ELSE LET error_msg == <<"Token refresh failed:">> \o Str(rr.exc)
                         IN Result([rr.self EXCEPT !.auth_error = error_msg], "-",
                                   GmailAuthError(error_msg), rr.log)
            ELSE Result(self, "None", NoExc, << >>)

\* Variant of _ensure_valid_token that returns quietly without credentials.
EnsureValidToken_SilentWithoutCreds(self, t, r) ==
    IF self.creds = << >>
    THEN IF self.auth_error # NoError
         THEN Result(self, "None", NoExc, << >>)
         ELSE Result(self, "None", NoExc, << >>)
    ELSE LET c == self.creds[1]
             expires_in == IF c.expiry # << >> THEN c.expiry[1] - t ELSE 0
         IN IF ~c.valid \/ expires_in < SafetyMargin
            THEN LET rr == RefreshToken(self, t, r)
                 IN IF rr.exc = NoExc
                    THEN rr
                    ELSE LET error_msg == <<"Token refresh failed:">> \o Str(rr.exc)
                         IN Result([rr.self EXCEPT !.auth_error = error_msg], "-",
                                   GmailAuthError(error_msg), rr.log)
            ELSE Result(self, "None", NoExc, << >>)

\* ------------------------------------------------------ _ensure_valid_token
EnsureValidToken(self, t, r) ==
    IF self.creds = << >>
    THEN IF self.auth_error # NoError
         THEN Result(self, "-", GmailAuthError(self.auth_error), << >>)
         ELSE Result(self, "None", NoExc, << >>)
    ELSE LET c == self.creds[1]
             expires_in == IF c.expiry # << >> THEN c.expiry[1] - t ELSE 0
         IN IF ~c.valid \/ expires_in < SafetyMargin
            THEN LET rr == RefreshToken(self, t, r)
                 IN IF rr.exc = NoExc
                    THEN rr
                    ELSE LET error_msg == <<"Token refresh failed:">> \o Str(rr.exc)
                         IN Result([rr.self EXCEPT !.auth_error = error_msg], "-",
                                   GmailAuthError(error_msg), rr.log)
            ELSE Result(self, "None", NoExc, << >>)

\* -------------------------------------------------------- _handle_api_error
HandleApiError(self, e) ==
    IF e.type = "HttpError" /\ e.status # 0
    THEN IF e.status = Unauthorized
         THEN Result([self EXCEPT !.auth_error =
                         <<"Authentication expired.", "Token refresh failed.">>],
                     "None", NoExc, << >>)
         ELSE Result(self, "None", NoExc, << >>)
    ELSE Result(self, "None", NoExc, << >>)

\* Variant of the 401 branch that invokes the operation a third time when
\* the retry reports 401 again.
RetryAfterRefresh_ThirdAttempt(self, t, r, o2) ==
    LET rr == RefreshToken(self, t, r)
    IN IF rr.exc = NoExc
       THEN LET ev == OpEv(o2, rr.self.auth_error)
            IN IF o2 = NoExc
               THEN Result(rr.self, "data", NoExc, rr.log \o <<ev>>)
               ELSE IF o2.type = "HttpError" /\ o2.status = Unauthorized
                    THEN Result(rr.self, "-", o2, rr.log \o <<ev, ev>>)
                    ELSE Result(rr.self, "-", o2, rr.log \o <<ev>>)
       ELSE IF rr.exc.type = "GmailAuthError"
            THEN Result(rr.self, "None", NoExc, rr.log)
            ELSE Result(rr.self, "-", rr.exc, rr.log)

\* Variant of the 401 branch that tries the refresh a second time when the
\* first one failed.
RetryAfterRefresh_RefreshTwice(self, t, r, o2) ==
    LET rr == RefreshToken(self, t, r)
    IN IF rr.exc = NoExc
       THEN LET ev == OpEv(o2, rr.self.auth_error)
            IN IF o2 = NoExc
               THEN Result(rr.self, "data", NoExc, rr.log \o <<ev>>)
               ELSE Result(rr.self, "-", o2, rr.log \o <<ev>>)
       ELSE IF rr.exc.type = "GmailAuthError"
            THEN Result(rr.self, "None", NoExc, rr.log \o rr.log)
            ELSE Result(rr.self, "-", rr.exc, rr.log \o rr.log)

\* Variant of the 401 branch that retries the operation although the forced
\* refresh failed.
RetryAfterRefresh_RetryRegardless(self, t, r, o2) ==
    LET rr == RefreshToken(self, t, r)
        ev == OpEv(o2, rr.self.auth_error)
    IN IF o2 = NoExc
       THEN Result(rr.self, "data", NoExc, rr.log \o <<ev>>)
       ELSE IF o2.type = "GmailAuthError"
            THEN Result(rr.self, "None", NoExc, rr.log \o <<ev>>)
            ELSE Result(rr.self, "-", o2, rr.log \o <<ev>>)

\* ------------------------------------- _execute_with_retry, lines 191-196
\* The 401 branch: forced refresh, then the single retry.  An exception of
\* this block that is not a GmailAuthError leaves _execute_with_retry: the
\* block sits inside the `except HttpError` handler, which the sibling
\* `except Exception` clause does not cover.
RetryAfterRefresh(self, t, r, o2) ==
    LET rr == RefreshToken(self, t, r)
    IN IF rr.exc = NoExc
       THEN LET ev == OpEv(o2, rr.self.auth_error)
            IN IF o2 = NoExc
               THEN Result(rr.self, "data", NoExc, rr.log \o <<ev>>)
               ELSE IF o2.type = "GmailAuthError"
                    THEN Result(rr.self, "None", NoExc, rr.log \o <<ev>>)
                    ELSE Result(rr.self, "-", o2, rr.log \o <<ev>>)
       ELSE IF rr.exc.type = "GmailAuthError"
            THEN Result(rr.self, "None", NoExc, rr.log)
            ELSE Result(rr.self, "-", rr.exc, rr.log)

\* Variant of _execute_with_retry that refreshes and retries after every
\* HttpError, whatever its status.
ExecuteWithRetry_RetryEveryHttpError(self, t, o1, r, o2) ==
    LET ev1 == OpEv(o1, self.auth_error)
    IN IF o1 = NoExc
       THEN Result(self, "data", NoExc, <<ev1>>)
       ELSE IF o1.type = "HttpError"
            THEN LET x == RetryAfterRefresh(self, t, r, o2)
                 IN Result(x.self, x.ret, x.exc, <<ev1>> \o x.log)
            ELSE LET h == HandleApiError(self, o1)
                 IN Result(h.self, h.ret, h.exc, <<ev1>>)

\* ------------------------------------------------------ _execute_with_retry
ExecuteWithRetry(self, t, o1, r, o2) ==
    LET ev1 == OpEv(o1, self.auth_error)
    IN IF o1 = NoExc
       THEN Result(self, "data", NoExc, <<ev1>>)
       ELSE IF o1.type = "HttpError"
            THEN IF o1.status = Unauthorized
                 THEN LET x == RetryAfterRefresh(self, t, r, o2)
                      IN Result(x.self, x.ret, x.exc, <<ev1>> \o x.log)
                 ELSE LET h == HandleApiError(self, o1)
                      IN Result(h.self, h.ret, h.exc, <<ev1>>)
            ELSE LET h == HandleApiError(self, o1)
                 IN Result(h.self, h.ret, h.exc, <<ev1>>)

\* Variant of get_profile that goes on to the wrapped operation although the
\* freshness check raised GmailAuthError.
GetProfileCall_CallRegardless(self, t, r1, o1, r2, o2) ==
    LET e == EnsureValidToken(self, t, r1)
    IN IF e.exc # NoExc /\ e.exc.type # "GmailAuthError"
       THEN e
       ELSE LET x == ExecuteWithRetry(e.self, t, o1, r2, o2)
            IN IF x.exc.type = "GmailAuthError"
               THEN Result(x.self, "None", NoExc, e.log \o x.log)
               ELSE Result(x.self, x.ret, x.exc, e.log \o x.log)

\* -------------------------------------------------------------- get_profile
GetProfileCall(self, t, r1, o1, r2, o2) ==
    LET e == EnsureValidToken(self, t, r1)
    IN IF e.exc # NoExc
       THEN IF e.exc.type = "GmailAuthError"
            THEN Result(e.self, "None", NoExc, e.log)
            ELSE e
       ELSE LET x == ExecuteWithRetry(e.self, t, o1, r2, o2)
            IN IF x.exc.type = "GmailAuthError"
               THEN Result(x.self, "None", NoExc, e.log \o x.log)
               ELSE Result(x.self, x.ret, x.exc, e.log \o x.log)

\* ------------------------------------------------------------ _load_secrets
Required == {"refresh_token", "client_id", "client_secret"}

\* Variant of _load_secrets that does not look for missing fields.
LoadSecrets_NoValidation(self, file, fields) ==
    IF self.secrets_data # << >>
    THEN Result(self, "data", NoExc, << >>)
    ELSE IF file = "badjson"
         THEN Result(self, "-", GmailAuthError(<<"Invalid JSON in secrets file:">>), << >>)
         ELSE IF file = "unreadable"
              THEN Result(self, "-", GmailAuthError(<<"Failed to read secrets file:">>), << >>)
              ELSE Result([self EXCEPT !.secrets_data = <<fields>>], "data", NoExc, << >>)

\* file: "unreadable", "badjson" or "ok"; fields: the non-empty entries of
\* the gmail section.
LoadSecrets(self, file, fields) ==
    IF self.secrets_data # << >>
    THEN Result(self, "data", NoExc, << >>)
    ELSE IF file = "badjson"
         THEN Result(self, "-", GmailAuthError(<<"Invalid JSON in secrets file:">>), << >>)
         ELSE IF file = "unreadable"
              THEN Result(self, "-", GmailAuthError(<<"Failed to read secrets file:">>), << >>)
              ELSE IF Required \ fields # {}
                   THEN Result(self, "-",
                               GmailAuthError(<<"Missing required fields in secrets:">>), << >>)
                   ELSE Result([self EXCEPT !.secrets_data = <<fields>>], "data", NoExc, << >>)

\* ------------------------------------------------------------ _authenticate
\* buildOk: whether build('gmail', 'v1', ...) returns a service.
Authenticate(self, t, file, fields, r, buildOk) ==
    LET ld == LoadSecrets(self, file, fields)
    IN IF ld.exc # NoExc
       THEN ld
       ELSE LET s1 == [ld.self EXCEPT !.creds =
                          <<[token |-> "none", expiry |-> << >>, valid |-> FALSE]>>]
                rr == RefreshToken(s1, t, r)
            IN IF rr.exc # NoExc
               THEN IF rr.exc.type = "GmailAuthError"
                    THEN rr
                    ELSE Result(rr.self, "-",
                                GmailAuthError(<<"Authentication failed:">> \o Str(rr.exc)),
                                rr.log)
               ELSE IF buildOk
                    THEN Result([rr.self EXCEPT !.service = <<"gmail">>], "None", NoExc, rr.log)
                    ELSE Result(rr.self, "-",
                                GmailAuthError(<<"Authentication failed:", "build">>), rr.log)

\* =================================================================== hosts
\* nakimi/core/yubikey.py.  A host is described by the three signals is_wsl2
\* reads: the content of /proc/version (<< >> = the file cannot be read),
\* the output of `uname -r` (<< >> = uname cannot be run) and the value of
\* WSL_DISTRO_NAME (<< >> = unset or empty).
Hosts ==
    [proc_version : {<< >>, <<<<"Linux", "version", "6.1">>>>,
                     <<<<"Linux", "version", "5.15", "Microsoft">>>>},
     uname : {<< >>, <<<<"6.1", "generic">>>>, <<<<"5.15", "microsoft", "standard", "WSL2">>>>},
     wsl_distro_name : {<< >>, <<"Ubuntu">>}]

\* str.lower() on one token
Lower(w) == IF w = "Microsoft" THEN "microsoft" ELSE w

\* "microsoft" in text.lower()
MentionsMicrosoft(text) == \E i \in 1..Len(text) : Lower(text[i]) = "microsoft"

\* Variant of is_wsl2 that reads /proc/version only.
IsWsl2_VersionFileOnly(h) ==
    h.proc_version # << >> /\ MentionsMicrosoft(h.proc_version[1])

\* is_wsl2()
IsWsl2(h) ==
    IF h.proc_version # << >> /\ MentionsMicrosoft(h.proc_version[1])
    THEN TRUE
    ELSE IF h.uname # << >> /\ MentionsMicrosoft(h.uname[1])
         THEN TRUE
         ELSE h.wsl_distro_name # << >>

\* ------------------------------------------------------- external processes
\* subprocess.run(..., check=True): exit code 0, CalledProcessError carrying
\* stderr, or FileNotFoundError.
ProcOk == [kind |-> "ok", stderr |-> << >>]

ProcExit(stderr) == [kind |-> "exit", stderr |-> stderr]

ProcNotFound == [kind |-> "notfound", stderr |-> << >>]

FileNotFoundError == [type |-> "FileNotFoundError", msg |-> << >>, status |-> 0]

\* What `ykman info` may print on stderr when it exits non-zero.
Stderrs ==
    { << >>, <<"ERROR:", "PC/SC not available">>,
      <<"Smart card (CCID) protocols">>, <<"No YubiKey detected">> }

\* The external tools as one call finds them: the outcome of each probe.  A
\* ykman that is not on the search path is not found by either probe.
ToolEnvs ==
    { e \in [ykman_version : {ProcOk, ProcExit(<< >>), ProcNotFound},
             ykman_info : {ProcOk, ProcNotFound} \cup {ProcExit(x) : x \in Stderrs},
             plugin : {ProcOk, ProcExit(<< >>), ProcNotFound},
             plugin_exe : {ProcOk, ProcExit(<< >>), ProcNotFound}] :
        (e.ykman_version = ProcNotFound) <=> (e.ykman_info = ProcNotFound) }

\* One entry of the probe log: the command line and its outcome.
Probe(cmd, out) == [cmd |-> cmd, out |-> out]

\* A host that shows none of the three signals, and no tool installed.
NativeHost == [proc_version |-> <<<<"Linux", "version", "6.1">>>>,
               uname |-> <<<<"6.1", "generic">>>>, wsl_distro_name |-> << >>]

NoTools == [ykman_version |-> ProcNotFound, ykman_info |-> ProcNotFound,
            plugin |-> ProcNotFound, plugin_exe |-> ProcNotFound]

\* The manager's fields, config.yubikey_enabled among them.
YkSelf == [ykman_available |-> ykman_available, yubikey_present |-> yubikey_present,
           yubikey_enabled |-> yubikey_enabled]

\* YubiKeyManager.__init__
YkFresh == [ykman_available |-> << >>, yubikey_present |-> << >>]

\* --------------------------------------------------- _check_ykman_installed
CheckYkmanInstalled(self, env) ==
    IF self.ykman_available # << >>
    THEN Result(self, self.ykman_available[1], NoExc, << >>)
    ELSE LET p == Probe("ykman --version", env.ykman_version)
         IN IF env.ykman_version = ProcOk
            THEN Result([self EXCEPT !.ykman_available = <<TRUE>>], TRUE, NoExc, <<p>>)
            ELSE Result([self EXCEPT !.ykman_available = <<FALSE>>], FALSE, NoExc, <<p>>)

\* Variant of _check_yubikey_present_wsl2 that asks the Linux build only.
CheckYubikeyPresentWsl2_NativeOnly(self, env) ==
    LET p2 == Probe("age-plugin-yubikey --version", env.plugin)
    IN IF env.plugin = ProcOk
       THEN Result(self, TRUE, NoExc, <<p2>>)
       ELSE Result(self, FALSE, NoExc, <<p2>>)

\* Variant of _check_yubikey_present_wsl2 that takes a build that could be
\* started for a build that answered, whatever its exit code.
CheckYubikeyPresentWsl2_FoundMeansPresent(self, env) ==
    LET p1 == Probe("age-plugin-yubikey.exe --version", env.plugin_exe)
        p2 == Probe("age-plugin-yubikey --version", env.plugin)
    IN IF env.plugin_exe # ProcNotFound
       THEN Result(self, TRUE, NoExc, <<p1>>)
       ELSE IF env.plugin # ProcNotFound
            THEN Result(self, TRUE, NoExc, <<p1, p2>>)
            ELSE Result(self, FALSE, NoExc, <<p1, p2>>)

\* ----------------------------------------------- _check_yubikey_present_wsl2
CheckYubikeyPresentWsl2(self, env) ==
    LET p1 == Probe("age-plugin-yubikey.exe --version", env.plugin_exe)
        p2 == Probe("age-plugin-yubikey --version", env.plugin)
    IN IF env.plugin_exe = ProcOk
       THEN Result(self, TRUE, NoExc, <<p1>>)
       ELSE IF env.plugin = ProcOk
            THEN Result(self, TRUE, NoExc, <<p1, p2>>)
            ELSE Result(self, FALSE, NoExc, <<p1, p2>>)

\* ----------------------------------------------- _check_age_plugin_installed
CheckAgePluginInstalled(self, env) ==
    LET p1 == Probe("age-plugin-yubikey --version", env.plugin)
        p2 == Probe("age-plugin-yubikey.exe --version", env.plugin_exe)
    IN IF env.plugin = ProcOk
       THEN Result(self, TRUE, NoExc, <<p1>>)
       ELSE IF env.plugin_exe = ProcOk
            THEN Result(self, TRUE, NoExc, <<p1, p2>>)
            ELSE Result(self, FALSE, NoExc, <<p1, p2>>)

\* The transport-unavailable signature, yubikey.py:111
TransportUnavailable(stderr) ==
    Contains(stderr, "PC/SC not available") \/ Contains(stderr, "Smart card (CCID) protocols")

\* Variant of _check_yubikey_present that falls back to the plugin probe on
\* every host, not only under WSL2.
CheckYubikeyPresent_FallbackEverywhere(self, h, env) ==
    IF self.yubikey_present # << >>
    THEN Result(self, self.yubikey_present, NoExc, << >>)
    ELSE LET yk == CheckYkmanInstalled(self, env)
             pi == Probe("ykman info", env.ykman_info)
             present == [yk.self EXCEPT !.yubikey_present = <<TRUE>>]
             absent  == [yk.self EXCEPT !.yubikey_present = <<FALSE>>]
         IN IF yk.ret
            THEN IF env.ykman_info = ProcOk
                 THEN Result(present, <<TRUE>>, NoExc, yk.log \o <<pi>>)
                 ELSE IF env.ykman_info = ProcNotFound
                      THEN Result(yk.self, << >>, FileNotFoundError, yk.log \o <<pi>>)
                      ELSE IF TransportUnavailable(env.ykman_info.stderr)
                           THEN LET w == CheckYubikeyPresentWsl2(yk.self, env)
                                IN IF w.ret
                                   THEN Result(present, <<TRUE>>, NoExc, yk.log \o <<pi>> \o w.log)
                                   ELSE Result(absent, <<FALSE>>, NoExc, yk.log \o <<pi>> \o w.log)
                           ELSE Result(absent, <<FALSE>>, NoExc, yk.log \o <<pi>>)
            ELSE LET a == CheckAgePluginInstalled(yk.self, env)
                 IN IF a.ret
                    THEN LET w == CheckYubikeyPresentWsl2(yk.self, env)
                         IN IF w.ret
                            THEN Result(present, <<TRUE>>, NoExc, yk.log \o a.log \o w.log)
                            ELSE Result(absent, <<FALSE>>, NoExc, yk.log \o a.log \o w.log)
                    ELSE Result(absent, <<FALSE>>, NoExc, yk.log \o a.log)

\* --------------------------------------------------- _check_yubikey_present
\* Returns <<TRUE>> or <<FALSE>>; << >> when an exception leaves the method.
CheckYubikeyPresent(self, h, env) ==
    IF self.yubikey_present # << >>
    THEN Result(self, self.yubikey_present, NoExc, << >>)
    ELSE LET yk == CheckYkmanInstalled(self, env)
             pi == Probe("ykman info", env.ykman_info)
             present == [yk.self EXCEPT !.yubikey_present = <<TRUE>>]
             absent  == [yk.self EXCEPT !.yubikey_present = <<FALSE>>]
         IN IF yk.ret
            THEN IF env.ykman_info = ProcOk
                 THEN Result(present, <<TRUE>>, NoExc, yk.log \o <<pi>>)
                 ELSE IF env.ykman_info = ProcNotFound
                      THEN Result(yk.self, << >>, FileNotFoundError, yk.log \o <<pi>>)
                      ELSE IF IsWsl2(h) /\ TransportUnavailable(env.ykman_info.stderr)
                           THEN LET w == CheckYubikeyPresentWsl2(yk.self, env)
                                IN IF w.ret
                                   THEN Result(present, <<TRUE>>, NoExc, yk.log \o <<pi>> \o w.log)
                                   ELSE Result(absent, <<FALSE>>, NoExc, yk.log \o <<pi>> \o w.log)
                           ELSE Result(absent, <<FALSE>>, NoExc, yk.log \o <<pi>>)
            ELSE IF IsWsl2(h)
                 THEN LET a == CheckAgePluginInstalled(yk.self, env)
                      IN IF a.ret
                         THEN LET w == CheckYubikeyPresentWsl2(yk.self, env)
                              IN IF w.ret
                                 THEN Result(present, <<TRUE>>, NoExc, yk.log \o a.log \o w.log)
                                 ELSE Result(absent, <<FALSE>>, NoExc, yk.log \o a.log \o w.log)
                         ELSE Result(absent, <<FALSE>>, NoExc, yk.log \o a.log)
                 ELSE Result(absent, <<FALSE>>, NoExc, yk.log)

\* ======================================================= key-encryption layer
\* class YubiKeyError(Exception)
YubiKeyError(m) == [type |-> "YubiKeyError", msg |-> m, status |-> 0]

\* What bytes.decode("utf-8") raises on bytes that are not UTF-8.
UnicodeDecodeError == [type |-> "UnicodeDecodeError", msg |-> << >>, status |-> 0]

\* What a failing write to the identity file raises.
OSError == [type |-> "OSError", msg |-> << >>, status |-> 0]

\* A WSL2 host: the kernel version names Microsoft.
WslHost == [proc_version |-> <<<<"Linux", "version", "5.15", "Microsoft">>>>,
            uname |-> <<<<"5.15", "microsoft", "standard", "WSL2">>>>,
            wsl_distro_name |-> <<"Ubuntu">>]

\* The hosts the wrapping and PIN operations are run on.
KelHosts == {NativeHost, WslHost}

\* A process that exited 0 and printed stdout (a sequence of lines, or bytes).
Ran(stdout) == [kind |-> "ok", stderr |-> << >>, stdout |-> stdout]

\* ------------------------------------------------------------ str and bytes
\* A str whose characters matter is a sequence of characters; bytes are a
\* sequence of byte values.  The characters used: those of "MOCK:", of
\* "mock-key-", the decimal digits, and the key characters "A" and "é".
Digits == <<"0", "1", "2", "3", "4", "5", "6", "7", "8", "9">>

Alphabet ==
    {"M", "O", "C", "K", ":", "m", "o", "c", "k", "-", "e", "y", "A", "é"}
    \cup {Digits[i] : i \in 1..10}

\* c.encode("utf-8") for one character
Utf8(c) ==
    CASE c = "M" -> <<77>>  [] c = "O" -> <<79>>  [] c = "C" -> <<67>>
      [] c = "K" -> <<75>>  [] c = ":" -> <<58>>  [] c = "m" -> <<109>>
      [] c = "o" -> <<111>> [] c = "c" -> <<99>>  [] c = "k" -> <<107>>
      [] c = "-" -> <<45>>  [] c = "e" -> <<101>> [] c = "y" -> <<121>>
      [] c = "A" -> <<65>>  [] c = "é" -> <<195, 169>>
      [] c = "0" -> <<48>>  [] c = "1" -> <<49>>  [] c = "2" -> <<50>>
      [] c = "3" -> <<51>>  [] c = "4" -> <<52>>  [] c = "5" -> <<53>>
      [] c = "6" -> <<54>>  [] c = "7" -> <<55>>  [] c = "8" -> <<56>>
      [] c = "9" -> <<57>>

\* s.encode("utf-8")
RECURSIVE Utf8Encode(_)
Utf8Encode(s) == IF s = << >> THEN << >> ELSE Utf8(Head(s)) \o Utf8Encode(Tail(s))

\* b.decode("utf-8"): <<s>>, or << >> where Python raises UnicodeDecodeError.
\* A byte that starts no character of the alphabet (0xFF among them) is
\* taken for invalid; the byte strings decoded here hold no other ASCII.
RECURSIVE Utf8Decode(_)
Utf8Decode(b) ==
    IF b = << >> THEN << << >> >>
    ELSE LET one == {c \in Alphabet : Utf8(c) = <<b[1]>>}
             two == IF Len(b) >= 2 THEN {c \in Alphabet : Utf8(c) = <<b[1], b[2]>>} ELSE {}
         IN IF one # {}
            THEN LET rest == Utf8Decode(Tail(b))
                 IN IF rest = << >> THEN << >>
                    ELSE << <<CHOOSE c \in one : TRUE>> \o rest[1] >>
            ELSE IF two # {}
                 THEN LET rest == Utf8Decode(Tail(Tail(b)))
                      IN IF rest = << >> THEN << >>
                         ELSE << <<CHOOSE c \in two : TRUE>> \o rest[1] >>
                 ELSE << >>

\* str(n) for a natural number
RECURSIVE Decimal(_)
Decimal(n) == IF n < 10 THEN <<Digits[n + 1]>>
              ELSE Decimal(n \div 10) \o <<Digits[(n % 10) + 1]>>

\* Private keys handed to encrypt_age_key.
Keys == { <<"A">>, <<"é", "A">> }

\* ---------------------------------------------------------- the plugin
\* The two builds of age-plugin-yubikey.
NativeBuild == "age-plugin-yubikey"

ExeBuild == "age-plugin-yubikey.exe"

\* The command line [cmd, "--list" | "--identity" | "--version", ...]
PluginCmd(build, op) ==
    CASE build = NativeBuild /\ op = "list" -> "age-plugin-yubikey --list"
      [] build = ExeBuild /\ op = "list" -> "age-plugin-yubikey.exe --list"
      [] build = NativeBuild /\ op = "identity" -> "age-plugin-yubikey --identity"
      [] build = ExeBuild /\ op = "identity" -> "age-plugin-yubikey.exe --identity"
      [] build = NativeBuild /\ op = "version" -> "age-plugin-yubikey --version"
      [] build = ExeBuild /\ op = "version" -> "age-plugin-yubikey.exe --version"

\* yubikey.py:181-184 and 224-227: the order in which the builds are tried
Commands(h) == IF IsWsl2(h) THEN <<ExeBuild, NativeBuild>> ELSE <<NativeBuild, ExeBuild>>

\* The recipient tag a line of `--list` output must start with.
RecipientTag == "age1yubikey1"

\* line.startswith(tag): a line is a sequence of words.
StartsWith(line, tag) == Len(line) > 0 /\ line[1] = tag

\* s.strip(): trailing and leading whitespace words are dropped.
RECURSIVE Strip(_)
Strip(s) ==
    IF s = << >> THEN s
    ELSE IF Head(s) \in {"\r", "\n"} THEN Strip(Tail(s))
    ELSE IF s[Len(s)] \in {"\r", "\n"} THEN Strip(SubSeq(s, 1, Len(s) - 1))
    ELSE s

\* The recipient and the identity the plugin prints for the configured slot.
SlotRecipient == <<"age1yubikey1", "q9a">>

SlotIdentity == <<"AGE-PLUGIN-YUBIKEY-1", "q9a">>

\* What `--list --slot <slot>` may print when it exits 0: the recipient on a
\* line of its own (the .exe build ends its lines with \r\n), or only the
\* comment line that mentions it.
ListOutputs(build) ==
    IF build = ExeBuild
    THEN { << <<"#", "Recipient:", "age1yubikey1", "q9a", "\r">>,
              <<"age1yubikey1", "q9a", "\r">> >>,
           << <<"#", "Recipient:", "age1yubikey1", "q9a", "\r">> >> }
    ELSE { << <<"#", "Recipient:", "age1yubikey1", "q9a">>, <<"age1yubikey1", "q9a">> >>,
           << <<"#", "Recipient:", "age1yubikey1", "q9a">> >> }

\* What `--identity --slot <slot>` prints when it exits 0.
IdentityOutputs == { <<"AGE-PLUGIN-YUBIKEY-1", "q9a", "\n">> }

\* yubikey.py:193-195: the first line starting with the tag, stripped;
\* << >> when there is none.
RecipientIn(stdout) ==
    LET hits == {i \in 1..Len(stdout) : StartsWith(stdout[i], RecipientTag)}
    IN IF hits = {} THEN << >>
       ELSE << Strip(stdout[CHOOSE i \in hits : \A j \in hits : i <= j]) >>

\* -------------------------------------------------------------- the age tool
\* Bytes that are an age file: the recipient it is encrypted to and the
\* plaintext it carries.  Bytes that are no age file name no recipient.
AgeFile(to, body) == [to |-> to, body |-> body]

NotAgeFile == [to |-> << >>, body |-> << >>]

\* `age -r <recipient>` exiting 0 prints the input encrypted to the recipient.
AgeEncrypt(recipient, input) == AgeFile(recipient, input)

\* `age -d -i <identity file>`: with the token answering (PIN, touch) it
\* prints the plaintext of an age file made for the identity's slot and
\* exits non-zero on anything else.
AgeDecrypt(token, identity, ct) ==
    IF token = ProcOk
    THEN IF ct.to # << >> /\ Len(identity) >= 2 /\ ct.to[2] = identity[2]
         THEN Ran(ct.body)
         ELSE ProcExit(<<"no identity matched any of the recipients">>)
    ELSE token

\* The tools as one wrap or unwrap call finds them.  A build that is not on
\* the search path is not found whatever it is asked.
PluginOutcomes(versions, outputs) ==
    { [version |-> ProcNotFound, op |-> ProcNotFound] }
    \cup [version : versions,
          op : {Ran(o) : o \in outputs} \cup {ProcExit(<<"no", "slot">>)}]

WrapEnvs ==
    { [plugin |-> n.version, plugin_exe |-> x.version, list |-> n.op, list_exe |-> x.op,
       age |-> a] :
        n \in PluginOutcomes({ProcOk, ProcExit(<< >>)}, ListOutputs(NativeBuild)),
        x \in PluginOutcomes({ProcOk, ProcExit(<< >>)}, ListOutputs(ExeBuild)),
        a \in {ProcOk, ProcExit(<<"age:", "error">>), ProcNotFound} }

UnwrapEnvs ==
    { [plugin |-> n.version, plugin_exe |-> x.version,
       identity |-> n.op, identity_exe |-> x.op, write |-> w, age |-> a] :
        n \in PluginOutcomes({ProcOk}, IdentityOutputs),
        x \in PluginOutcomes({ProcOk}, IdentityOutputs),
        w \in {ProcOk, ProcExit(<<"No space left on device">>)},
        a \in {ProcOk, ProcExit(<<"age:", "error">>), ProcNotFound} }

\* ---------------------------------------------------- _get_yubikey_recipient
\* Variant of _get_yubikey_recipient that goes on to the next build when the
\* output holds no recipient line.
GetYubikeyRecipient_SkipUntagged(self, h, env) ==
    LET out(b) == IF b = ExeBuild THEN env.list_exe ELSE env.list
        c1 == Commands(h)[1]
        c2 == Commands(h)[2]
        p1 == Probe(PluginCmd(c1, "list"), out(c1))
        p2 == Probe(PluginCmd(c2, "list"), out(c2))
        NotFound == YubiKeyError(<<"age-plugin-yubikey not found.">>)
        After(last_error, log) ==
            IF last_error # << >> /\ IsWsl2(h)
            THEN Result(self, << >>,
                        YubiKeyError(<<"Failed to get recipient:">> \o last_error[1].stderr), log)
            ELSE Result(self, << >>, NotFound, log)
        Second(last_error) ==
            IF out(c2).kind = "ok" /\ RecipientIn(out(c2).stdout) # << >>
            THEN Result(self, RecipientIn(out(c2).stdout), NoExc, <<p1, p2>>)
            ELSE IF out(c2).kind \in {"ok", "notfound"}
                 THEN After(last_error, <<p1, p2>>)
                 ELSE IF IsWsl2(h)
                      THEN After(<<out(c2)>>, <<p1, p2>>)
                      ELSE Result(self, << >>,
                                  YubiKeyError(<<"Failed to get recipient with", c2>>
                                               \o out(c2).stderr), <<p1, p2>>)
    IN IF out(c1).kind = "ok" /\ RecipientIn(out(c1).stdout) # << >>
       THEN Result(self, RecipientIn(out(c1).stdout), NoExc, <<p1>>)
       ELSE IF out(c1).kind \in {"ok", "notfound"}
            THEN Second(<< >>)
            ELSE IF IsWsl2(h)
                 THEN Second(<<out(c1)>>)
                 ELSE Result(self, << >>,
                             YubiKeyError(<<"Failed to get recipient with", c1>>
                                          \o out(c1).stderr), <<p1>>)

\* Returns <<recipient>>; << >> when it raises.  The loop over the two
\* builds is written out: First is its first pass, Second its second, After
\* the statements behind it.
GetYubikeyRecipient(self, h, env) ==
    LET out(b) == IF b = ExeBuild THEN env.list_exe ELSE env.list
        c1 == Commands(h)[1]
        c2 == Commands(h)[2]
        p1 == Probe(PluginCmd(c1, "list"), out(c1))
        p2 == Probe(PluginCmd(c2, "list"), out(c2))
        NotFound == YubiKeyError(<<"age-plugin-yubikey not found.">>)
        After(last_error, log) ==
            IF last_error # << >> /\ IsWsl2(h)
            THEN Result(self, << >>,
                        YubiKeyError(<<"Failed to get recipient:">> \o last_error[1].stderr), log)
            ELSE Result(self, << >>, NotFound, log)
        Second(last_error) ==
            IF out(c2).kind = "ok"
            THEN IF RecipientIn(out(c2).stdout) # << >>
                 THEN Result(self, RecipientIn(out(c2).stdout), NoExc, <<p1, p2>>)
                 ELSE Result(self, << >>,
                             YubiKeyError(<<"No recipient found in", c2, "output">>), <<p1, p2>>)
            ELSE IF out(c2).kind = "notfound"
                 THEN After(last_error, <<p1, p2>>)
                 ELSE IF IsWsl2(h)
                      THEN After(<<out(c2)>>, <<p1, p2>>)
                      ELSE Result(self, << >>,
                                  YubiKeyError(<<"Failed to get recipient with", c2>>
                                               \o out(c2).stderr), <<p1, p2>>)
    IN IF out(c1).kind = "ok"
       THEN IF RecipientIn(out(c1).stdout) # << >>
            THEN Result(self, RecipientIn(out(c1).stdout), NoExc, <<p1>>)
            ELSE Result(self, << >>,
                        YubiKeyError(<<"No recipient found in", c1, "output">>), <<p1>>)
       ELSE IF out(c1).kind = "notfound"
            THEN Second(<< >>)
            ELSE IF IsWsl2(h)
                 THEN Second(<<out(c1)>>)
                 ELSE Result(self, << >>,
                             YubiKeyError(<<"Failed to get recipient with", c1>>
                                          \o out(c1).stderr), <<p1>>)

\* ----------------------------------------------------- _get_yubikey_identity
\* Returns <<identity>>; << >> when it raises.
GetYubikeyIdentity(self, h, env) ==
    LET out(b) == IF b = ExeBuild THEN env.identity_exe ELSE env.identity
        c1 == Commands(h)[1]
        c2 == Commands(h)[2]
        p1 == Probe(PluginCmd(c1, "identity"), out(c1))
        p2 == Probe(PluginCmd(c2, "identity"), out(c2))
        NotFound == YubiKeyError(<<"age-plugin-yubikey not found.">>)
        After(last_error, log) ==
            IF last_error # << >> /\ IsWsl2(h)
            THEN Result(self, << >>,
                        YubiKeyError(<<"Failed to get identity:">> \o last_error[1].stderr), log)
            ELSE Result(self, << >>, NotFound, log)
        Second(last_error) ==
            IF out(c2).kind = "ok"
            THEN Result(self, <<Strip(out(c2).stdout)>>, NoExc, <<p1, p2>>)
            ELSE IF out(c2).kind = "notfound"
                 THEN After(last_error, <<p1, p2>>)
                 ELSE IF IsWsl2(h)
                      THEN After(<<out(c2)>>, <<p1, p2>>)
                      ELSE Result(self, << >>,
                                  YubiKeyError(<<"Failed to get identity with", c2>>
                                               \o out(c2).stderr), <<p1, p2>>)
    IN IF out(c1).kind = "ok"
       THEN Result(self, <<Strip(out(c1).stdout)>>, NoExc, <<p1>>)
       ELSE IF out(c1).kind = "notfound"
            THEN Second(<< >>)
            ELSE IF IsWsl2(h)
                 THEN Second(<<out(c1)>>)
                 ELSE Result(self, << >>,
                             YubiKeyError(<<"Failed to get identity with", c1>>
                                          \o out(c1).stderr), <<p1>>)

\* ------------------------------------------------------------- is_available
IsAvailable(self, h, env) ==
    IF ~self.yubikey_enabled
    THEN Result(self, <<FALSE>>, NoExc, << >>)
    ELSE CheckYubikeyPresent(self, h, env)

\* ---------------------------------------------------------- encrypt_age_key
NotInstalled == YubiKeyError(<<"age-plugin-yubikey not installed.">>)

\* Returns <<ciphertext>>; << >> when it raises.
EncryptAgeKey(self, h, env, age_private_key) ==
    LET a == CheckAgePluginInstalled(self, env)
    IN IF ~a.ret
       THEN Result(self, << >>, NotInstalled, a.log)
       ELSE LET r == GetYubikeyRecipient(self, h, env)
                p == Probe("age -r", env.age)
                log == a.log \o r.log \o <<p>>
            IN IF r.exc # NoExc
               THEN Result(self, << >>, r.exc, a.log \o r.log)
               ELSE IF env.age = ProcOk
                    THEN Result(self, <<AgeEncrypt(r.ret[1], Utf8Encode(age_private_key))>>,
                                NoExc, log)
                    ELSE IF env.age = ProcNotFound
                         THEN Result(self, << >>, FileNotFoundError, log)
                         ELSE Result(self, << >>,
                                     YubiKeyError(<<"Age encryption failed:">> \o env.age.stderr),
                                     log)

\* ---------------------------------------------------------- decrypt_age_key
\* The log also holds what happens to the identity file: its creation by
\* NamedTemporaryFile(delete=False), the write, and os.unlink.
FileCreated == Probe("NamedTemporaryFile", ProcOk)

FileWritten(out) == Probe("f.write", out)

FileUnlinked == Probe("os.unlink", ProcOk)

\* Returns <<plaintext>>; << >> when it raises.
DecryptAgeKey(self, h, env, encrypted_key) ==
    LET a == CheckAgePluginInstalled(self, env)
    IN IF ~a.ret
       THEN Result(self, << >>, NotInstalled, a.log)
       ELSE LET i == GetYubikeyIdentity(self, h, env)
            IN IF i.exc # NoExc
               THEN Result(self, << >>, i.exc, a.log \o i.log)
               ELSE IF env.write # ProcOk
                    THEN Result(self, << >>, OSError,
                                a.log \o i.log \o <<FileCreated, FileWritten(env.write)>>)
                    ELSE LET d == AgeDecrypt(env.age, i.ret[1], encrypted_key)
                             log == a.log \o i.log
                                    \o <<FileCreated, FileWritten(ProcOk),
                                         Probe("age -d -i", d), FileUnlinked>>
                         IN IF d.kind = "ok"
                            THEN IF Utf8Decode(d.stdout) # << >>
                                 THEN Result(self, Utf8Decode(d.stdout), NoExc, log)
                                 ELSE Result(self, << >>, UnicodeDecodeError, log)
                            ELSE IF d.kind = "notfound"
                                 THEN Result(self, << >>, FileNotFoundError, log)
                                 ELSE Result(self, << >>,
                                             YubiKeyError(<<"Age decryption failed:">>
                                                          \o d.stderr), log)

\* The identity files a call leaves on disk: created and not unlinked.
LeftBehind(log) ==
    IF (\E i \in DOMAIN log : log[i] = FileCreated)
       /\ ~(\E i \in DOMAIN log : log[i] = FileUnlinked)
    THEN 1 ELSE 0

\* -------------------------------------------------------------- the PIN tools
\* The tools as one PIN or slot call finds them: the presence probes and the
\* `ykman piv ...` command of the call.
PinEnvs ==
    { e \in [ykman_version : {ProcOk, ProcExit(<< >>), ProcNotFound},
             ykman_info : {ProcOk, ProcNotFound, ProcExit(<<"No YubiKey detected">>),
                           ProcExit(<<"ERROR:", "PC/SC not available">>)},
             plugin : {ProcOk, ProcNotFound},
             plugin_exe : {ProcOk, ProcNotFound},
             piv : {ProcOk, ProcExit(<<"PIN verification failed">>), ProcNotFound}] :
        /\ (e.ykman_version = ProcNotFound) <=> (e.ykman_info = ProcNotFound)
        /\ (e.ykman_version = ProcNotFound) <=> (e.piv = ProcNotFound) }

Pins == {"123456", "000000"}

\* Variant of verify_pin that answers False without ykman on every host.
VerifyPin_NoOptimism(self, h, env, pin) ==
    LET av == IsAvailable(self, h, env)
    IN IF av.exc # NoExc
       THEN Result(av.self, << >>, av.exc, av.log)
       ELSE IF av.ret = <<FALSE>>
            THEN Result(av.self, <<FALSE>>, NoExc, av.log)
            ELSE LET yk == CheckYkmanInstalled(av.self, env)
                     p == Probe("ykman piv verify-pin", env.piv)
                     log == av.log \o yk.log
                 IN IF yk.ret
                    THEN IF env.piv = ProcOk
                         THEN Result(yk.self, <<TRUE>>, NoExc, log \o <<p>>)
                         ELSE IF env.piv = ProcNotFound
                              THEN Result(yk.self, << >>, FileNotFoundError, log \o <<p>>)
                              ELSE Result(yk.self, <<FALSE>>, NoExc, log \o <<p>>)
                    ELSE Result(yk.self, <<FALSE>>, NoExc, log)

\* --------------------------------------------------------------- verify_pin
\* Returns <<TRUE>> or <<FALSE>>; << >> when an exception leaves the method.
VerifyPin(self, h, env, pin) ==
    LET av == IsAvailable(self, h, env)
    IN IF av.exc # NoExc
       THEN Result(av.self, << >>, av.exc, av.log)
       ELSE IF av.ret = <<FALSE>>
            THEN Result(av.self, <<FALSE>>, NoExc, av.log)
            ELSE LET yk == CheckYkmanInstalled(av.self, env)
                     p == Probe("ykman piv verify-pin", env.piv)
                     log == av.log \o yk.log
                 IN IF yk.ret
                    THEN IF env.piv = ProcOk
                         THEN Result(yk.self, <<TRUE>>, NoExc, log \o <<p>>)
                         ELSE IF env.piv = ProcNotFound
                              THEN Result(yk.self, << >>, FileNotFoundError, log \o <<p>>)
                              ELSE Result(yk.self, <<FALSE>>, NoExc, log \o <<p>>)
                    ELSE IF IsWsl2(h)
                         THEN Result(yk.self, <<TRUE>>, NoExc, log)
                         ELSE Result(yk.self, <<FALSE>>, NoExc, log)

\* --------------------------------------------------------------- change_pin
ChangePin(self, h, env, old_pin, new_pin) ==
    LET av == IsAvailable(self, h, env)
    IN IF av.exc # NoExc
       THEN Result(av.self, << >>, av.exc, av.log)
       ELSE IF av.ret = <<FALSE>>
            THEN Result(av.self, <<FALSE>>, NoExc, av.log)
            ELSE LET yk == CheckYkmanInstalled(av.self, env)
                     p == Probe("ykman piv change-pin", env.piv)
                     log == av.log \o yk.log
                 IN IF yk.ret
                    THEN IF env.piv = ProcOk
                         THEN Result(yk.self, <<TRUE>>, NoExc, log \o <<p>>)
                         ELSE IF env.piv = ProcNotFound
                              THEN Result(yk.self, << >>, FileNotFoundError, log \o <<p>>)
                              ELSE Result(yk.self, <<FALSE>>, NoExc, log \o <<p>>)
                    ELSE IF IsWsl2(h)
                         THEN Result(yk.self, << >>,
                                     YubiKeyError(<<"PIN change not available in WSL2 mode.">>),
                                     log)
                         ELSE Result(yk.self, <<FALSE>>, NoExc, log)

\* ------------------------------------------------------------ get_slot_info
\* The dict returned: the parsed output of `ykman piv info slot`, or the
\* slot with a note.
SlotInfo(note) == [slot |-> "9a", note |-> note]

\* Returns <<dict>>; << >> when it raises.
GetSlotInfo(self, h, env) ==
    LET av == IsAvailable(self, h, env)
    IN IF av.exc # NoExc
       THEN Result(av.self, << >>, av.exc, av.log)
       ELSE IF av.ret = <<FALSE>>
            THEN Result(av.self, << >>, YubiKeyError(<<"YubiKey not available">>), av.log)
            ELSE LET yk == CheckYkmanInstalled(av.self, env)
                     p == Probe("ykman piv info slot", env.piv)
                     log == av.log \o yk.log
                 IN IF yk.ret
                    THEN IF env.piv = ProcOk
                         THEN Result(yk.self, <<SlotInfo(<< >>)>>, NoExc, log \o <<p>>)
                         ELSE IF env.piv = ProcNotFound
                              THEN Result(yk.self, << >>, FileNotFoundError, log \o <<p>>)
                              ELSE IF IsWsl2(h)
                                   THEN Result(yk.self,
                                               <<SlotInfo(<<"WSL2 mode - limited slot info available">>)>>,
                                               NoExc, log \o <<p>>)
                                   ELSE Result(yk.self, << >>,
                                               YubiKeyError(<<"Failed to get slot info:">>
                                                            \o env.piv.stderr), log \o <<p>>)
                    ELSE IF IsWsl2(h)
                         THEN Result(yk.self,
                                     <<SlotInfo(<<"WSL2 mode - ykman unavailable, limited info">>)>>,
                                     NoExc, log)
                         ELSE Result(yk.self, << >>,
                                     YubiKeyError(<<"Cannot get slot info - ykman not installed">>),
                                     log)

\* ------------------------------------------------------- MockYubiKeyManager
\* "MOCK:" and "mock-key-" as characters
MockPrefix == <<"M", "O", "C", "K", ":">>

MockKeyPrefix == <<"m", "o", "c", "k", "-", "k", "e", "y", "-">>

\* s.startswith(prefix) on characters
HasPrefix(s, prefix) == Len(s) >= Len(prefix) /\ SubSeq(s, 1, Len(prefix)) = prefix

\* The result of a mock call: the dict after it, the value returned (<< >>
\* when it raised) and the exception.
MockResult(keys, ret, exc) == [keys |-> keys, ret |-> ret, exc |-> exc]

\* MockYubiKeyManager.encrypt_age_key; keys is self.mock_encrypted_keys, a
\* function from key ids to keys.
MockEncryptAgeKey(keys, age_private_key) ==
    LET key_id == MockKeyPrefix \o Decimal(Cardinality(DOMAIN keys))
    IN MockResult((key_id :> age_private_key) @@ keys,
                  <<Utf8Encode(MockPrefix \o key_id)>>, NoExc)

\* MockYubiKeyManager.decrypt_age_key
MockDecryptAgeKey(keys, encrypted_key) ==
    LET data == Utf8Decode(encrypted_key)
        NotFound == MockResult(keys, << >>, YubiKeyError(<<"Mock key not found">>))
    IN IF data = << >>
       THEN MockResult(keys, << >>, UnicodeDecodeError)
       ELSE IF HasPrefix(data[1], MockPrefix)
            THEN LET key_id == SubSeq(data[1], Len(MockPrefix) + 1, Len(data[1]))
                 IN IF key_id \in DOMAIN keys
                    THEN MockResult(keys, <<keys[key_id]>>, NoExc)
                    ELSE NotFound
            ELSE NotFound

\* ============================================================== diagnostics
\* The dict get_diagnostics starts from, lines 272-278, as a record with one
\* field per key the method may set: << >> = the key is not in the dict.
\* (yubikey_slot, ykman_stdout and ykman_stderr are copies of values the
\* method does not look at again and are left out.)
Report(self, ykman_installed, age_plugin_installed, h) ==
    [yubikey_enabled |-> <<self.yubikey_enabled>>,
     ykman_installed |-> <<ykman_installed>>,
     age_plugin_installed |-> <<age_plugin_installed>>,
     wsl2_environment |-> <<IsWsl2(h)>>,
     yubikey_detected |-> << >>, ykman_returncode |-> << >>, pcsc_available |-> << >>,
     error_type |-> << >>, wsl2_mode |-> << >>, error |-> << >>]

\* result.returncode of subprocess.run(..., check=False)
ReturnCode(out) == IF out = ProcOk THEN 0 ELSE 1

\* Lines 298-300, 307-309 and 312-314: under WSL2 the entry is what the
\* plugin probe says.
Wsl2Mode(d, w) == [d EXCEPT !.wsl2_mode = <<TRUE>>, !.yubikey_detected = <<w.ret>>]

\* Variant of get_diagnostics that sets no yubikey_detected entry on a native
\* host without ykman.
GetDiagnostics_NoNativeEntry(self, h, env) ==
    LET yk == CheckYkmanInstalled(self, env)
        a == CheckAgePluginInstalled(yk.self, env)
        d0 == Report(self, yk.ret, a.ret, h)
        pi == Probe("ykman info", env.ykman_info)
        w == CheckYubikeyPresentWsl2(a.self, env)
        pre == yk.log \o a.log
    IN IF yk.ret
       THEN IF env.ykman_info = ProcNotFound
            THEN LET d1 == [d0 EXCEPT !.yubikey_detected = <<FALSE>>,
                                      !.error = <<Str(FileNotFoundError)>>]
                 IN IF IsWsl2(h)
                    THEN Result(a.self, Wsl2Mode(d1, w), NoExc, pre \o <<pi>> \o w.log)
                    ELSE Result(a.self, d1, NoExc, pre \o <<pi>>)
            ELSE LET rc == ReturnCode(env.ykman_info)
                     stderr == env.ykman_info.stderr
                     d1 == [d0 EXCEPT !.yubikey_detected = <<rc = 0>>,
                                      !.ykman_returncode = <<rc>>]
                 IN IF stderr # << >>
                    THEN IF Contains(stderr, "PC/SC not available")
                         THEN LET d2 == [d1 EXCEPT !.pcsc_available = <<FALSE>>,
                                                   !.error_type = <<"pcsc_not_available">>]
                              IN IF IsWsl2(h)
                                 THEN Result(a.self, Wsl2Mode(d2, w), NoExc,
                                             pre \o <<pi>> \o w.log)
                                 ELSE Result(a.self, d2, NoExc, pre \o <<pi>>)
                         ELSE Result(a.self, [d1 EXCEPT !.pcsc_available = <<TRUE>>],
                                     NoExc, pre \o <<pi>>)
                    ELSE Result(a.self, d1, NoExc, pre \o <<pi>>)
       ELSE IF IsWsl2(h)
            THEN Result(a.self, Wsl2Mode(d0, w), NoExc, pre \o w.log)
            ELSE Result(a.self, d0, NoExc, pre)

\* ------------------------------------------------------------ get_diagnostics
\* `ykman info` is run with check=False: a non-zero exit is a return code,
\* and a ykman that cannot be started raises FileNotFoundError, which the
\* `except Exception` of line 304 turns into the "error" entry.
GetDiagnostics(self, h, env) ==
    LET yk == CheckYkmanInstalled(self, env)
        a == CheckAgePluginInstalled(yk.self, env)
        d0 == Report(self, yk.ret, a.ret, h)
        pi == Probe("ykman info", env.ykman_info)
        w == CheckYubikeyPresentWsl2(a.self, env)
        pre == yk.log \o a.log
    IN IF yk.ret
       THEN IF env.ykman_info = ProcNotFound
            THEN LET d1 == [d0 EXCEPT !.yubikey_detected = <<FALSE>>,
                                      !.error = <<Str(FileNotFoundError)>>]
                 IN IF IsWsl2(h)
                    THEN Result(a.self, Wsl2Mode(d1, w), NoExc, pre \o <<pi>> \o w.log)
                    ELSE Result(a.self, d1, NoExc, pre \o <<pi>>)
            ELSE LET rc == ReturnCode(env.ykman_info)
                     stderr == env.ykman_info.stderr
                     d1 == [d0 EXCEPT !.yubikey_detected = <<rc = 0>>,
                                      !.ykman_returncode = <<rc>>]
                 IN IF stderr # << >>
                    THEN IF Contains(stderr, "PC/SC not available")
                         THEN LET d2 == [d1 EXCEPT !.pcsc_available = <<FALSE>>,
                                                   !.error_type = <<"pcsc_not_available">>]
                              IN IF IsWsl2(h)
                                 THEN Result(a.self, Wsl2Mode(d2, w), NoExc,
                                             pre \o <<pi>> \o w.log)
                                 ELSE Result(a.self, d2, NoExc, pre \o <<pi>>)
                         ELSE Result(a.self, [d1 EXCEPT !.pcsc_available = <<TRUE>>],
                                     NoExc, pre \o <<pi>>)
                    ELSE Result(a.self, d1, NoExc, pre \o <<pi>>)
       ELSE IF IsWsl2(h)
            THEN Result(a.self, Wsl2Mode(d0, w), NoExc, pre \o w.log)
            ELSE Result(a.self, [d0 EXCEPT !.yubikey_detected = <<FALSE>>], NoExc, pre)

\* ========================================================== the secrets file
\* kimi_vault/client.py, GmailClient._resolve_secrets_file.
AttributeError ==
    [type |-> "AttributeError", msg |-> <<"module 'sys' has no attribute 'environ'">>,
     status |-> 0]

\* The attributes of module sys that client.py names besides `environ`
\* (sys.stderr at line 218); Python's sys module has no attribute `environ`,
\* the process environment being os.environ, and client.py imports no os.
SysAttributes == {"stderr"}

\* The paths a caller or the environment may name.
Paths == {"a.json", "b.json"}

\* The process environment: the value of each of the two variables, << >> =
\* not set, <<"">> = set to the empty string.
Environs ==
    [KIMI_VAULT_SECRETS : {<< >>, <<"">>, <<"a.json">>},
     KIMI_BOT_SECRETS : {<< >>, <<"">>, <<"b.json">>}]

\* The explicit secrets_file argument of GmailClient(...): None, "", a path.
SecretsArgs == {<< >>, <<"">>, <<"a.json">>, <<"b.json">>}

\* Truth value of an Optional[str]: None and "" are false.
Truthy(v) == v # << >> /\ v[1] # ""

\* x or y
Or(x, y) == IF Truthy(x) THEN x ELSE y

\* What _resolve_secrets_file returns (<<path>>) or raises.
Resolved(ret, exc) == [ret |-> ret, exc |-> exc]

\* existing: the paths for which Path.exists() is true.
ResolveSecretsFile(secrets_file, environ, existing) ==
    IF Truthy(secrets_file)
    THEN IF secrets_file[1] \in existing
         THEN Resolved(secrets_file, NoExc)
         ELSE Resolved(<< >>, GmailAuthError(<<"Secrets file not found:", secrets_file[1]>>))
    ELSE IF "environ" \notin SysAttributes
         THEN Resolved(<< >>, AttributeError)
         ELSE LET env_path == Or(environ.KIMI_VAULT_SECRETS, environ.KIMI_BOT_SECRETS)
              IN IF Truthy(env_path) /\ env_path[1] \in existing
                 THEN Resolved(env_path, NoExc)
                 ELSE Resolved(<< >>, GmailAuthError(<<"No secrets file provided.">>))

\* ===================================================== the software identity
\* kimi_vault/crypto.py, class VaultCrypto.
\* class VaultCryptoError(Exception)
VaultCryptoError(m) == [type |-> "VaultCryptoError", msg |-> m, status |-> 0]

\* A file on disk: what it holds and its permission bits.
File(content, mode) == [content |-> content, mode |-> mode]

\* os.chmod(self.key_file, 0o600): owner read/write only.
OwnerReadWrite == "0o600"

\* The permission bits a new file gets under the usual umask.
UmaskDefault == "0o644"

\* The permission bits age-keygen may create its output file with.
CreatedModes == {UmaskDefault, OwnerReadWrite}

\* The key pairs age-keygen may generate: the private key and its public key.
KeyPairs == { [key |-> "AGE-SECRET-KEY-1", pub |-> "age1new"] }

\* The banner the program looks for on the stderr of age-keygen, line 57.
PublicKeyTag == "# public key:"

\* What age-keygen prints on stderr when it writes the key to a file: a line
\* with the tag the program looks for, or the line "Public key: ...".
Banners(pub) == { << <<PublicKeyTag, pub>> >>, << <<"Public key:", pub>> >> }

\* Outcomes of `age-keygen -o key_file`: the key file written (with the key,
\* its permission bits and the banner printed), a non-zero exit, or no
\* age-keygen on the search path.
KeygenOutcomes ==
    UNION { { [kind |-> "ok", stderr |-> b, key |-> <<p.key>>, mode |-> m] :
                 b \in Banners(p.pub), m \in CreatedModes } : p \in KeyPairs }
    \cup { [kind |-> "exit", stderr |-> << <<"age-keygen:", "error">> >>, key |-> << >>,
            mode |-> ""],
           [kind |-> "notfound", stderr |-> << >>, key |-> << >>, mode |-> ""] }

\* The tools as one generate_key call finds them.
KeygenEnvs ==
    [age_version : {ProcOk, ProcExit(<< >>), ProcNotFound},
     keygen : KeygenOutcomes,
     pub_write : {ProcOk, ProcExit(<< >>)}]

\* The tools as one decrypt call finds them; stderr of age is bytes.  An age
\* that is not on the search path is not found by either invocation.
DecryptEnvs ==
    { e \in [age_version : {ProcOk, ProcExit(<< >>), ProcNotFound},
             mkstemp : {ProcOk, ProcExit(<< >>)},
             age_decrypt : {ProcOk, ProcExit(Utf8Encode(<<"A">>)), ProcExit(<<255>>),
                            ProcNotFound}] :
        (e.age_version = ProcNotFound) <=> (e.age_decrypt = ProcNotFound) }

\* The files VaultCrypto works on.
Disk == [key_file |-> key_file, key_pub_file |-> key_pub_file, temp_files |-> temp_files]

\* A method's result: the disk after it, the value returned (<< >> when it
\* raised), the exception raised and the calls it made.
CryptoResult(disk, ret, exc, log) == [disk |-> disk, ret |-> ret, exc |-> exc, log |-> log]

\* --------------------------------------------------------- _check_age_installed
CheckAgeInstalled(disk, env) ==
    LET p == Probe("age --version", env.age_version)
    IN IF env.age_version = ProcOk
       THEN CryptoResult(disk, << >>, NoExc, <<p>>)
       ELSE CryptoResult(disk, << >>, VaultCryptoError(<<"age is not installed.">>), <<p>>)

\* Lines 55-59: the public key of the first banner line, None without one.
PublicKeyIn(stderr) ==
    LET hits == {i \in 1..Len(stderr) : StartsWith(stderr[i], PublicKeyTag)}
    IN IF hits = {} THEN << >>
       ELSE << stderr[CHOOSE i \in hits : \A j \in hits : i <= j][2] >>

\* Variant of generate_key without the check of lines 41-45: age-keygen
\* writes over the key file that is there.
GenerateKey_Overwrite(disk, env) ==
    LET a == CheckAgeInstalled(disk, env)
        k == env.keygen
        pk == Probe("age-keygen -o", [kind |-> k.kind, stderr |-> << >>])
    IN IF a.exc # NoExc
       THEN a
       ELSE IF k.kind = "notfound"
            THEN CryptoResult(disk, << >>, FileNotFoundError, a.log \o <<pk>>)
            ELSE IF k.kind = "exit"
                 THEN CryptoResult(disk, << >>,
                                   VaultCryptoError(<<"Failed to generate key:">>),
                                   a.log \o <<pk>>)
                 ELSE LET d1 == [disk EXCEPT !.key_file = <<File(k.key[1], k.mode)>>]
                          public_key == PublicKeyIn(k.stderr)
                          pw == Probe("open(key_pub_file, 'w')", env.pub_write)
                          ch == Probe("os.chmod", ProcOk)
                          d2 == IF public_key # << >>
                                THEN [d1 EXCEPT !.key_pub_file = <<File(public_key[1], UmaskDefault)>>]
                                ELSE d1
                          d3 == [d2 EXCEPT !.key_file = <<File(k.key[1], OwnerReadWrite)>>]
                      IN IF public_key # << >> /\ env.pub_write # ProcOk
                         THEN CryptoResult(d1, << >>, OSError, a.log \o <<pk, pw>>)
                         ELSE CryptoResult(d3, public_key, NoExc,
                                           a.log \o <<pk>>
                                           \o (IF public_key # << >> THEN <<pw>> ELSE << >>)
                                           \o <<ch>>)

\* ----------------------------------------------------------------- generate_key
\* Returns <<public_key>>, or << >> (None) when age-keygen printed no banner
\* line with the tag.
GenerateKey(disk, env) ==
    LET a == CheckAgeInstalled(disk, env)
        k == env.keygen
        pk == Probe("age-keygen -o", [kind |-> k.kind, stderr |-> << >>])
    IN IF a.exc # NoExc
       THEN a
       ELSE IF disk.key_file # << >>
            THEN CryptoResult(disk, << >>, VaultCryptoError(<<"Key file already exists:">>),
                              a.log)
            ELSE IF k.kind = "notfound"
                 THEN CryptoResult(disk, << >>, FileNotFoundError, a.log \o <<pk>>)
                 ELSE IF k.kind = "exit"
                      THEN CryptoResult(disk, << >>,
                                        VaultCryptoError(<<"Failed to generate key:">>),
                                        a.log \o <<pk>>)
                      ELSE LET d1 == [disk EXCEPT !.key_file = <<File(k.key[1], k.mode)>>]
                               public_key == PublicKeyIn(k.stderr)
                               pw == Probe("open(key_pub_file, 'w')", env.pub_write)
                               ch == Probe("os.chmod", ProcOk)
                               d2 == IF public_key # << >>
                                     THEN [d1 EXCEPT !.key_pub_file =
                                                        <<File(public_key[1], UmaskDefault)>>]
                                     ELSE d1
                               d3 == [d2 EXCEPT !.key_file = <<File(k.key[1], OwnerReadWrite)>>]
                           IN IF public_key # << >> /\ env.pub_write # ProcOk
                              THEN CryptoResult(d1, << >>, OSError, a.log \o <<pk, pw>>)
                              ELSE CryptoResult(d3, public_key, NoExc,
                                                a.log \o <<pk>>
                                                \o (IF public_key # << >> THEN <<pw>>
                                                    ELSE << >>)
                                                \o <<ch>>)

\* Variant of decrypt that raises on a non-zero exit of age without removing
\* the temporary file.
Decrypt_NoCleanup(disk, env, input_exists, output_file) ==
    LET a == CheckAgeInstalled(disk, env)
        mk == Probe("tempfile.mkstemp", env.mkstemp)
        ad == Probe("age -d -i", env.age_decrypt)
        made == IF output_file = << >>
                THEN [disk EXCEPT !.temp_files = disk.temp_files + 1]
                ELSE disk
        pre == a.log \o (IF output_file = << >> THEN <<mk>> ELSE << >>)
    IN IF a.exc # NoExc
       THEN a
       ELSE IF ~input_exists
            THEN CryptoResult(disk, << >>, VaultCryptoError(<<"Encrypted file not found:">>),
                              a.log)
            ELSE IF disk.key_file = << >>
                 THEN CryptoResult(disk, << >>, VaultCryptoError(<<"Private key not found:">>),
                                   a.log)
                 ELSE IF output_file = << >> /\ env.mkstemp # ProcOk
                      THEN CryptoResult(disk, << >>, OSError, pre)
                      ELSE IF env.age_decrypt = ProcOk
                           THEN CryptoResult(made,
                                             IF output_file = << >> THEN <<"tempfile">>
                                             ELSE output_file,
                                             NoExc, pre \o <<ad>>)
                           ELSE IF env.age_decrypt = ProcNotFound
                                THEN CryptoResult(made, << >>, FileNotFoundError, pre \o <<ad>>)
                                ELSE LET text == Utf8Decode(env.age_decrypt.stderr)
                                     IN IF text = << >>
                                        THEN CryptoResult(made, << >>, UnicodeDecodeError,
                                                          pre \o <<ad>>)
                                        ELSE CryptoResult(made, << >>,
                                                 VaultCryptoError(<<"Decryption failed:">>
                                                                  \o text[1]),
                                                 pre \o <<ad>>)

\* ---------------------------------------------------------------------- decrypt
\* input_exists: whether the encrypted input file is there; output_file: the
\* path given, << >> for None.  Returns <<path>>.
Decrypt(disk, env, input_exists, output_file) ==
    LET a == CheckAgeInstalled(disk, env)
        mk == Probe("tempfile.mkstemp", env.mkstemp)
        ad == Probe("age -d -i", env.age_decrypt)
        ul == Probe("output_path.unlink", ProcOk)
        made == IF output_file = << >>
                THEN [disk EXCEPT !.temp_files = disk.temp_files + 1]
                ELSE disk
        pre == a.log \o (IF output_file = << >> THEN <<mk>> ELSE << >>)
        cleaned == IF output_file = << >> THEN disk ELSE made
        post == pre \o <<ad>> \o (IF output_file = << >> THEN <<ul>> ELSE << >>)
    IN IF a.exc # NoExc
       THEN a
       ELSE IF ~input_exists
            THEN CryptoResult(disk, << >>, VaultCryptoError(<<"Encrypted file not found:">>),
                              a.log)
            ELSE IF disk.key_file = << >>
                 THEN CryptoResult(disk, << >>, VaultCryptoError(<<"Private key not found:">>),
                                   a.log)
                 ELSE IF output_file = << >> /\ env.mkstemp # ProcOk
                      THEN CryptoResult(disk, << >>, OSError, pre)
                      ELSE IF env.age_decrypt = ProcOk
                           THEN CryptoResult(made,
                                             IF output_file = << >> THEN <<"tempfile">>
                                             ELSE output_file,
                                             NoExc, pre \o <<ad>>)
                           ELSE IF env.age_decrypt = ProcNotFound
                                THEN CryptoResult(made, << >>, FileNotFoundError, pre \o <<ad>>)
                                ELSE LET text == Utf8Decode(env.age_decrypt.stderr)
                                     IN IF text = << >>
                                        THEN CryptoResult(cleaned, << >>, UnicodeDecodeError,
                                                          post)
                                        ELSE CryptoResult(cleaned, << >>,
                                                 VaultCryptoError(<<"Decryption failed:">>
                                                                  \o text[1]),
                                                 post)

\* ------------------------------------------------------------------ actions
Record(call, res) ==
    [call |-> call, ret |-> res.ret, exc |-> res.exc, log |-> res.log,
     err_before |-> auth_error]

Store(res) ==
    /\ creds' = res.self.creds
    /\ auth_error' = res.self.auth_error
    /\ service' = res.self.service
    /\ secrets_data' = res.self.secrets_data

\* No call of a wrapping, PIN or slot operation made yet.
KelNone ==
    [call |-> "none", input |-> << >>, ret |-> << >>, exc |-> NoExc, log |-> << >>,
     present_before |-> << >>, available |-> << >>]

\* MockYubiKeyManager.__init__: the dict is empty.
MockInit ==
    /\ mock_encrypted_keys = << >>
    /\ mock_issued = {}
    /\ mock_last = [call |-> "none", input |-> << >>, ret |-> << >>, exc |-> NoExc]

\* No call of get_diagnostics made yet.
DiagNone ==
    [call |-> "none", ret |-> << >>, exc |-> NoExc, log |-> << >>, env |-> NoTools,
     host |-> NativeHost, fresh |-> TRUE, ladder |-> << >>]

\* No call of _resolve_secrets_file made yet.
ResolveNone ==
    [call |-> "none", secrets_file |-> << >>, environ |-> << >>, existing |-> {},
     ret |-> << >>, exc |-> NoExc]

\* No call of VaultCrypto made yet.
CryptoNone ==
    [call |-> "none", output_file |-> << >>, input_exists |-> FALSE, ret |-> << >>,
     exc |-> NoExc, log |-> << >>, key_before |-> << >>, pub_before |-> << >>,
     temp_before |-> 0]

\* Nothing diagnosed or resolved yet, and an empty vault directory.
VaultInit ==
    /\ diag_last = DiagNone
    /\ resolve_last = ResolveNone
    /\ key_file = << >>
    /\ key_pub_file = << >>
    /\ temp_files = 0
    /\ crypto_last = CryptoNone

\* YubiKeyManager(config): both memo fields empty, no call made yet; the
\* feature is enabled in the configuration.
YkInit ==
    /\ ykman_available = YkFresh.ykman_available
    /\ yubikey_present = YkFresh.yubikey_present
    /\ yk_last = [call |-> "none", ret |-> << >>, exc |-> NoExc, log |-> << >>,
                  env |-> NoTools, host |-> NativeHost, present_before |-> << >>]
    /\ yubikey_enabled = TRUE
    /\ identity_files = 0
    /\ wrapped = << >>
    /\ kel_last = KelNone
    /\ MockInit
    /\ VaultInit

Init ==
    /\ constructed = FALSE
    /\ creds = Fresh.creds
    /\ auth_error = Fresh.auth_error
    /\ service = Fresh.service
    /\ secrets_data = Fresh.secrets_data
    /\ now = 0
    /\ last = [call |-> "none", ret |-> "-", exc |-> NoExc, log |-> << >>,
               err_before |-> NoError]
    /\ args = << >>
    /\ YkInit
    /\ host = NativeHost

\* GmailClient(secrets_file): the object exists only if __init__ returns.
Construct ==
    /\ ~constructed
    /\ \E file \in {"unreadable", "badjson", "ok"}, fields \in SUBSET Required,
          r \in RefreshOutcomes, buildOk \in BOOLEAN :
          LET res == Authenticate(Fresh, now, file, fields, r, buildOk)
          IN /\ last' = Record("construct", res)
             /\ args' = <<file, fields>>
             /\ IF res.exc = NoExc
                THEN constructed' = TRUE /\ Store(res)
                ELSE UNCHANGED <<constructed, creds, auth_error, service, secrets_data>>
    /\ UNCHANGED <<now, ykvars, vaultvars>>

\* client.get_profile()
GetProfile ==
    /\ constructed
    /\ \E r1 \in RefreshOutcomes, o1 \in ApiOutcomes,
          r2 \in RefreshOutcomes, o2 \in ApiOutcomes :
          LET res == GetProfileCall(Self, now, r1, o1, r2, o2)
          IN last' = Record("get_profile", res) /\ Store(res)
    /\ args' = << >>
    /\ UNCHANGED <<constructed, now, ykvars, vaultvars>>

\* client._ensure_valid_token() on its own
EnsureFresh ==
    /\ constructed
    /\ \E r \in RefreshOutcomes :
          LET res == EnsureValidToken(Self, now, r)
          IN last' = Record("ensure_fresh", res) /\ Store(res)
    /\ args' = << >>
    /\ UNCHANGED <<constructed, now, ykvars, vaultvars>>

\* Time passes; the credential object may stop reporting itself valid.
Tick ==
    /\ \E d \in TickSteps :
          /\ now + d <= MaxNow
          /\ now' = now + d
    /\ \E v \in BOOLEAN :
          creds' = IF creds = << >> THEN creds
                   ELSE <<[creds[1] EXCEPT !.valid = creds[1].valid /\ v]>>
    /\ last' = [call |-> "tick", ret |-> "-", exc |-> NoExc, log |-> << >>,
                err_before |-> auth_error]
    /\ args' = << >>
    /\ UNCHANGED <<constructed, auth_error, service, secrets_data, ykvars, vaultvars>>

Next == Construct \/ GetProfile \/ EnsureFresh \/ Tick

Spec == Init /\ [][Next]_vars

\* ------------------------------------------- the guard as a function of its state
\* _ensure_valid_token applied to every guard object, the ones without
\* credential material included.
HeldCreds ==
    { <<[token |-> "fresh", expiry |-> e, valid |-> v]>> :
        e \in {<< >>, <<0>>, <<330>>, <<900>>}, v \in BOOLEAN }

StoredReasons ==
    { NoError, <<"Token refresh failed:", "timeout">>,
      <<"Token refresh failed:">> \o RevokedMsg }

InitGuardObject ==
    /\ constructed = TRUE
    /\ creds \in {<< >>} \cup HeldCreds
    /\ auth_error \in StoredReasons
    /\ service = <<"gmail">>
    /\ secrets_data = <<Required>>
    /\ now \in {0, 300}
    /\ last = [call |-> "none", ret |-> "-", exc |-> NoExc, log |-> << >>,
               err_before |-> NoError]
    /\ args = << >>
    /\ YkInit
    /\ host = NativeHost

SpecGuardObject == InitGuardObject /\ [][EnsureFresh]_vars

\* ------------------------------------------------- the key-encryption layer
\* manager._check_yubikey_present()
DevicePresent ==
    /\ \E env \in ToolEnvs :
          LET res == CheckYubikeyPresent(YkSelf, host, env)
          IN /\ ykman_available' = res.self.ykman_available
             /\ yubikey_present' = res.self.yubikey_present
             /\ yk_last' = [call |-> "device_present", ret |-> res.ret, exc |-> res.exc,
                            log |-> res.log, env |-> env, host |-> host,
                            present_before |-> yubikey_present]
    /\ UNCHANGED <<host, kelvars, mockvars, gvars, vaultvars>>

InitYk ==
    /\ constructed = FALSE
    /\ creds = Fresh.creds
    /\ auth_error = Fresh.auth_error
    /\ service = Fresh.service
    /\ secrets_data = Fresh.secrets_data
    /\ now = 0
    /\ last = [call |-> "none", ret |-> "-", exc |-> NoExc, log |-> << >>,
               err_before |-> NoError]
    /\ args = << >>
    /\ YkInit
    /\ host \in Hosts

NextYk == DevicePresent

SpecYk == InitYk /\ [][NextYk]_vars

\* ------------------------------------------------ wrap, unwrap and the PINs
\* The record of a call of the key-encryption layer: its argument, what it
\* returned or raised, the processes it ran, the presence memo before it and
\* what is_available() answered in it (<< >> when it was not asked).
KelRecord(call, input, res, available) ==
    [call |-> call, input |-> input, ret |-> res.ret, exc |-> res.exc, log |-> res.log,
     present_before |-> yubikey_present, available |-> available]

\* manager.encrypt_age_key(key); the caller keeps the ciphertext returned.
Wrap ==
    /\ \E env \in WrapEnvs, k \in Keys :
          LET res == EncryptAgeKey(YkSelf, host, env, k)
          IN /\ kel_last' = KelRecord("encrypt_age_key", k, res, << >>)
             /\ wrapped' = IF res.exc = NoExc
                           THEN <<[key |-> k, ct |-> res.ret[1]]>>
                           ELSE wrapped
    /\ UNCHANGED <<host, ykman_available, yubikey_present, yk_last, yubikey_enabled,
                   identity_files, mockvars, gvars, vaultvars>>

\* manager.decrypt_age_key(ct) on the ciphertext kept, or on bytes that are
\* no age file.
Unwrap ==
    /\ \E env \in UnwrapEnvs, ct \in {NotAgeFile} \cup {wrapped[i].ct : i \in DOMAIN wrapped} :
          LET res == DecryptAgeKey(YkSelf, host, env, ct)
          IN /\ identity_files + LeftBehind(res.log) <= MaxLeftBehind
             /\ identity_files' = identity_files + LeftBehind(res.log)
             /\ kel_last' = KelRecord("decrypt_age_key", ct, res, << >>)
    /\ UNCHANGED <<host, ykman_available, yubikey_present, yk_last, yubikey_enabled,
                   wrapped, mockvars, gvars, vaultvars>>

\* The managers wrap and unwrap are called on: enabled and with no presence
\* check made yet, enabled and with the device found absent by an earlier
\* check (ykman installed, `ykman info` failing), or disabled.
Managers ==
    { [ykman_available |-> << >>, yubikey_present |-> << >>, yubikey_enabled |-> TRUE],
      [ykman_available |-> <<TRUE>>, yubikey_present |-> <<FALSE>>, yubikey_enabled |-> TRUE],
      [ykman_available |-> << >>, yubikey_present |-> << >>, yubikey_enabled |-> FALSE] }

InitKel ==
    /\ constructed = FALSE
    /\ creds = Fresh.creds
    /\ auth_error = Fresh.auth_error
    /\ service = Fresh.service
    /\ secrets_data = Fresh.secrets_data
    /\ now = 0
    /\ last = [call |-> "none", ret |-> "-", exc |-> NoExc, log |-> << >>,
               err_before |-> NoError]
    /\ args = << >>
    /\ host \in KelHosts
    /\ \E m \in Managers : /\ ykman_available = m.ykman_available
                           /\ yubikey_present = m.yubikey_present
                           /\ yubikey_enabled = m.yubikey_enabled
    /\ yk_last = [call |-> "none", ret |-> << >>, exc |-> NoExc, log |-> << >>,
                  env |-> NoTools, host |-> NativeHost, present_before |-> << >>]
    /\ identity_files = 0
    /\ wrapped = << >>
    /\ kel_last = KelNone
    /\ MockInit
    /\ VaultInit

NextKel == Wrap \/ Unwrap

SpecKel == InitKel /\ [][NextKel]_vars

\* Store the manager's memo fields.
YkStore(res) ==
    /\ ykman_available' = res.self.ykman_available
    /\ yubikey_present' = res.self.yubikey_present

\* manager._check_ykman_installed()
YkmanCheck ==
    /\ \E env \in PinEnvs :
          LET res == CheckYkmanInstalled(YkSelf, env)
          IN /\ YkStore(res)
             /\ kel_last' = KelRecord("check_ykman_installed", << >>,
                                      [res EXCEPT !.ret = <<res.ret>>], << >>)
    /\ UNCHANGED <<host, yk_last, yubikey_enabled, identity_files, wrapped, mockvars, gvars, vaultvars>>

\* manager._check_age_plugin_installed()
PluginCheck ==
    /\ \E env \in PinEnvs :
          LET res == CheckAgePluginInstalled(YkSelf, env)
          IN /\ YkStore(res)
             /\ kel_last' = KelRecord("check_age_plugin_installed", << >>,
                                      [res EXCEPT !.ret = <<res.ret>>], << >>)
    /\ UNCHANGED <<host, yk_last, yubikey_enabled, identity_files, wrapped, mockvars, gvars, vaultvars>>

\* manager.verify_pin(pin)
PinVerify ==
    /\ \E env \in PinEnvs, pin \in Pins :
          LET res == VerifyPin(YkSelf, host, env, pin)
          IN /\ YkStore(res)
             /\ kel_last' = KelRecord("verify_pin", <<pin>>, res,
                                      IsAvailable(YkSelf, host, env).ret)
    /\ UNCHANGED <<host, yk_last, yubikey_enabled, identity_files, wrapped, mockvars, gvars, vaultvars>>

\* manager.change_pin(old_pin, new_pin)
PinChange ==
    /\ \E env \in PinEnvs, old_pin \in Pins, new_pin \in Pins :
          LET res == ChangePin(YkSelf, host, env, old_pin, new_pin)
          IN /\ YkStore(res)
             /\ kel_last' = KelRecord("change_pin", <<old_pin, new_pin>>, res,
                                      IsAvailable(YkSelf, host, env).ret)
    /\ UNCHANGED <<host, yk_last, yubikey_enabled, identity_files, wrapped, mockvars, gvars, vaultvars>>

\* manager.get_slot_info()
SlotQuery ==
    /\ \E env \in PinEnvs :
          LET res == GetSlotInfo(YkSelf, host, env)
          IN /\ YkStore(res)
             /\ kel_last' = KelRecord("get_slot_info", << >>, res,
                                      IsAvailable(YkSelf, host, env).ret)
    /\ UNCHANGED <<host, yk_last, yubikey_enabled, identity_files, wrapped, mockvars, gvars, vaultvars>>

InitPin ==
    /\ constructed = FALSE
    /\ creds = Fresh.creds
    /\ auth_error = Fresh.auth_error
    /\ service = Fresh.service
    /\ secrets_data = Fresh.secrets_data
    /\ now = 0
    /\ last = [call |-> "none", ret |-> "-", exc |-> NoExc, log |-> << >>,
               err_before |-> NoError]
    /\ args = << >>
    /\ host \in KelHosts
    /\ ykman_available = YkFresh.ykman_available
    /\ yubikey_present = YkFresh.yubikey_present
    /\ yk_last = [call |-> "none", ret |-> << >>, exc |-> NoExc, log |-> << >>,
                  env |-> NoTools, host |-> NativeHost, present_before |-> << >>]
    /\ yubikey_enabled \in BOOLEAN
    /\ identity_files = 0
    /\ wrapped = << >>
    /\ kel_last = KelNone
    /\ MockInit
    /\ VaultInit

NextPin == YkmanCheck \/ PluginCheck \/ PinVerify \/ PinChange \/ SlotQuery

SpecPin == InitPin /\ [][NextPin]_vars

\* --------------------------------------------------------- the mock manager
\* Ciphertexts handed to the mock's decrypt_age_key besides the ones its
\* encrypt_age_key returned: the id no call issues, a bare prefix, a text
\* without the prefix, and bytes that are not UTF-8.
ForeignCiphertexts ==
    { Utf8Encode(MockPrefix \o MockKeyPrefix \o Decimal(MaxWraps)),
      Utf8Encode(MockPrefix), Utf8Encode(<<"A">>), <<255>> }

\* mock.encrypt_age_key(key); the caller keeps every ciphertext with its key.
MockWrap ==
    /\ Cardinality(DOMAIN mock_encrypted_keys) < MaxWraps
    /\ \E k \in Keys :
          LET res == MockEncryptAgeKey(mock_encrypted_keys, k)
          IN /\ mock_encrypted_keys' = res.keys
             /\ mock_issued' = mock_issued \cup {[ct |-> res.ret[1], key |-> k]}
             /\ mock_last' = [call |-> "encrypt_age_key", input |-> k,
                              ret |-> res.ret, exc |-> res.exc]
    /\ UNCHANGED <<host, ykman_available, yubikey_present, yk_last, kelvars, gvars, vaultvars>>

\* mock.decrypt_age_key(ct)
MockUnwrap ==
    /\ \E ct \in {p.ct : p \in mock_issued} \cup ForeignCiphertexts :
          LET res == MockDecryptAgeKey(mock_encrypted_keys, ct)
          IN /\ mock_encrypted_keys' = res.keys
             /\ mock_last' = [call |-> "decrypt_age_key", input |-> ct,
                              ret |-> res.ret, exc |-> res.exc]
    /\ UNCHANGED <<host, ykman_available, yubikey_present, yk_last, kelvars, mock_issued, gvars, vaultvars>>

InitMock ==
    /\ constructed = FALSE
    /\ creds = Fresh.creds
    /\ auth_error = Fresh.auth_error
    /\ service = Fresh.service
    /\ secrets_data = Fresh.secrets_data
    /\ now = 0
    /\ last = [call |-> "none", ret |-> "-", exc |-> NoExc, log |-> << >>,
               err_before |-> NoError]
    /\ args = << >>
    /\ YkInit
    /\ host = NativeHost

NextMock == MockWrap \/ MockUnwrap

SpecMock == InitMock /\ [][NextMock]_vars


\* ----------------------------------------------------------- the diagnostics
\* manager.get_diagnostics().  The record keeps, next to the report, whether
\* the manager was fresh (no memo set) and what _check_yubikey_present
\* answers on the same manager, host and probe outcomes.
Diagnose ==
    /\ \E env \in ToolEnvs :
          LET res == GetDiagnostics(YkSelf, host, env)
          IN /\ YkStore(res)
             /\ diag_last' = [call |-> "get_diagnostics", ret |-> <<res.ret>>,
                              exc |-> res.exc, log |-> res.log, env |-> env, host |-> host,
                              fresh |-> (ykman_available = << >> /\ yubikey_present = << >>),
                              ladder |-> CheckYubikeyPresent(YkSelf, host, env).ret]
    /\ UNCHANGED <<host, yk_last, kelvars, mockvars, gvars, resolve_last, cryptovars>>

InitDiag ==
    /\ constructed = FALSE
    /\ creds = Fresh.creds
    /\ auth_error = Fresh.auth_error
    /\ service = Fresh.service
    /\ secrets_data = Fresh.secrets_data
    /\ now = 0
    /\ last = [call |-> "none", ret |-> "-", exc |-> NoExc, log |-> << >>,
               err_before |-> NoError]
    /\ args = << >>
    /\ YkInit
    /\ host \in Hosts

NextDiag == Diagnose

SpecDiag == InitDiag /\ [][NextDiag]_vars

\* ------------------------------------------------------------ the secrets file
\* GmailClient._resolve_secrets_file(secrets_file), as __init__ calls it.
Resolve ==
    /\ \E secrets_file \in SecretsArgs, environ \in Environs, existing \in SUBSET Paths :
          LET res == ResolveSecretsFile(secrets_file, environ, existing)
          IN resolve_last' = [call |-> "resolve_secrets_file", secrets_file |-> secrets_file,
                              environ |-> <<environ>>, existing |-> existing,
                              ret |-> res.ret, exc |-> res.exc]
    /\ UNCHANGED <<gvars, ykvars, diag_last, cryptovars>>

NextResolve == Resolve

SpecResolve == Init /\ [][NextResolve]_vars

\* ------------------------------------------------------- the software identity
\* The record of a call of VaultCrypto: its arguments, what it returned or
\* raised, the calls it made, and the disk before it.
CryptoRecord(call, input_exists, output_file, res) ==
    [call |-> call, output_file |-> output_file, input_exists |-> input_exists,
     ret |-> res.ret, exc |-> res.exc, log |-> res.log,
     key_before |-> key_file, pub_before |-> key_pub_file, temp_before |-> temp_files]

CryptoStore(res) ==
    /\ key_file' = res.disk.key_file
    /\ key_pub_file' = res.disk.key_pub_file
    /\ temp_files' = res.disk.temp_files

\* crypto.generate_key()
GenKey ==
    /\ \E env \in KeygenEnvs :
          LET res == GenerateKey(Disk, env)
          IN /\ CryptoStore(res)
             /\ crypto_last' = CryptoRecord("generate_key", FALSE, << >>, res)
    /\ UNCHANGED <<gvars, ykvars, diag_last, resolve_last>>

\* crypto.decrypt(input_file, output_file); a successful call without an
\* output file hands its temporary file to the caller.
DecryptFile ==
    /\ \E env \in DecryptEnvs, input_exists \in BOOLEAN,
          output_file \in {<< >>, <<"out.json">>} :
          LET res == Decrypt(Disk, env, input_exists, output_file)
          IN /\ res.disk.temp_files <= MaxTempFiles
             /\ CryptoStore(res)
             /\ crypto_last' = CryptoRecord("decrypt", input_exists, output_file, res)
    /\ UNCHANGED <<gvars, ykvars, diag_last, resolve_last>>

\* The vault directory VaultCrypto is constructed on: empty, or holding the
\* key pair of an earlier run (the public-key file may be missing, or be the
\* only one left).
InitCrypto ==
    /\ constructed = FALSE
    /\ creds = Fresh.creds
    /\ auth_error = Fresh.auth_error
    /\ service = Fresh.service
    /\ secrets_data = Fresh.secrets_data
    /\ now = 0
    /\ last = [call |-> "none", ret |-> "-", exc |-> NoExc, log |-> << >>,
               err_before |-> NoError]
    /\ args = << >>
    /\ host = NativeHost
    /\ ykman_available = YkFresh.ykman_available
    /\ yubikey_present = YkFresh.yubikey_present
    /\ yk_last = [call |-> "none", ret |-> << >>, exc |-> NoExc, log |-> << >>,
                  env |-> NoTools, host |-> NativeHost, present_before |-> << >>]
    /\ yubikey_enabled = TRUE
    /\ identity_files = 0
    /\ wrapped = << >>
    /\ kel_last = KelNone
    /\ MockInit
    /\ diag_last = DiagNone
    /\ resolve_last = ResolveNone
    /\ key_file \in {<< >>} \cup {<<File("AGE-SECRET-KEY-0", m)>> : m \in CreatedModes}
    /\ key_pub_file \in {<< >>, <<File("age1old", UmaskDefault)>>}
    /\ temp_files = 0
    /\ crypto_last = CryptoNone

NextCrypto == GenKey \/ DecryptFile

SpecCrypto == InitCrypto /\ [][NextCrypto]_vars

\* ================================================================ properties
\* Views of the log of the last call.
IsOp(e) == e.ev = "op"

IsRefresh(e) == e.ev = "refresh"

Ops(log) == SelectSeq(log, IsOp)

Refreshes(log) == SelectSeq(log, IsRefresh)

\* Index of the first invocation of the operation in the log, 0 if none.
FirstOp(log) ==
    IF \E i \in DOMAIN log : IsOp(log[i])
    THEN CHOOSE i \in DOMAIN log : IsOp(log[i]) /\ \A j \in 1..(i - 1) : ~IsOp(log[j])
    ELSE 0

\* The part of the log from the first invocation of the operation on: what
\* _execute_with_retry did.
Dispatch(log) == IF FirstOp(log) = 0 THEN << >> ELSE SubSeq(log, FirstOp(log), Len(log))

\* The part of the log before the first invocation: what _ensure_valid_token did.
Proactive(log) == IF FirstOp(log) = 0 THEN log ELSE SubSeq(log, 1, FirstOp(log) - 1)

Is401(o) == o.type = "HttpError" /\ o.status = Unauthorized

Revoked(sig) == Contains(Str(sig), "invalid_grant")

IsCall == last.call \in {"get_profile", "ensure_fresh"}

\* The reason _ensure_valid_token stores for a refresh that raised e.
StoredReason(e) == <<"Token refresh failed:">> \o Str(e)

\* C1: one get_profile call invokes the wrapped operation at most twice,
\* however many 401 responses the operation gives.
C1_AtMostTwoInvocations ==
    last.call = "get_profile" => Len(Ops(last.log)) <= 2

\* C1 witness: a call whose operation answered 401 on both invocations.
C1_Witness ==
    /\ last.call = "get_profile"
    /\ Len(Ops(last.log)) = 2
    /\ \A i \in 1..2 : Is401(Ops(last.log)[i].out)

\* C2 as stated: one get_profile call (freshness check plus dispatch) makes
\* at most one refresh call.
C2_AtMostOneRefreshInTotal ==
    last.call = "get_profile" => Len(Refreshes(last.log)) <= 1

\* C2 amended: one get_profile call makes at most one proactive refresh in
\* _ensure_valid_token and at most one forced refresh in _execute_with_retry,
\* hence at most two refresh calls in total.
C2_AtMostOneRefreshPerStage ==
    last.call = "get_profile" =>
        /\ Len(Refreshes(Proactive(last.log))) <= 1
        /\ Len(Refreshes(Dispatch(last.log))) <= 1
        /\ Len(Refreshes(last.log)) <= 2

\* C2 witness: a stale token was refreshed proactively and the operation
\* still answered 401, forcing a second refresh.
C2_Witness ==
    /\ last.call = "get_profile"
    /\ Len(Refreshes(Proactive(last.log))) = 1
    /\ Len(Refreshes(Dispatch(last.log))) = 1

\* C3 as stated: when the retry after a forced refresh fails, get_profile
\* returns None and raises nothing.
C3_RetryFailureReturnsNone ==
    (/\ last.call = "get_profile"
     /\ Len(Ops(last.log)) = 2
     /\ Ops(last.log)[2].out # NoExc)
    => (last.exc = NoExc /\ last.ret = "None")

\* C4 as stated: when the forced refresh fails, with or without the
\* revocation marker, get_profile returns None, raises nothing and does not
\* invoke the operation again.
C4_ForcedRefreshFailureReturnsNone ==
    (/\ last.call = "get_profile"
     /\ \E i \in DOMAIN Dispatch(last.log) :
           IsRefresh(Dispatch(last.log)[i]) /\ Dispatch(last.log)[i].out # NoExc)
    => (last.exc = NoExc /\ last.ret = "None" /\ Len(Ops(last.log)) = 1)

\* C5: when the first invocation answers 401, exactly one forced refresh
\* follows it, and the operation is invoked once more, after that refresh,
\* exactly when the refresh succeeded.
C5_OneForcedRefreshThenOneRetry ==
    LET d == Dispatch(last.log)
    IN (last.call = "get_profile" /\ d # << >> /\ Is401(d[1].out)) =>
          /\ Len(d) >= 2
          /\ IsRefresh(d[2])
          /\ IF d[2].out = NoExc
             THEN Len(d) = 3 /\ IsOp(d[3])
             ELSE Len(d) = 2

\* C5 witness: 401, successful forced refresh, retry.
C5_Witness ==
    LET d == Dispatch(last.log)
    IN /\ last.call = "get_profile"
       /\ Len(d) = 3
       /\ Is401(d[1].out)
       /\ IsRefresh(d[2]) /\ d[2].out = NoExc
       /\ IsOp(d[3])

C7_RevocationReasonStored ==
    IsCall =>
        \A i \in DOMAIN last.log :
            (IsRefresh(last.log[i]) /\ Revoked(last.log[i].out))
            => auth_error = StoredReason(last.log[i].raised)

\* C8 as stated: a refresh failure without the revocation marker is raised
\* by _refresh_token as GmailAuthError, and its reason is stored.
C8_TransientFailureIsAuthError ==
    \A i \in DOMAIN last.log :
        (/\ IsRefresh(last.log[i])
         /\ last.log[i].out # NoExc
         /\ ~Revoked(last.log[i].out))
        => /\ last.log[i].raised.type = "GmailAuthError"
           /\ (IsCall => auth_error = StoredReason(last.log[i].raised))

\* C9: _refresh_token raises the revocation error exactly for the failures
\* whose text carries the revocation marker; every other failure raises
\* something else.
C9_RevocationErrorIsDistinct ==
    \A i \in DOMAIN last.log :
        (IsRefresh(last.log[i]) /\ last.log[i].out # NoExc)
        => (last.log[i].raised = GmailAuthError(RevokedMsg) <=> Revoked(last.log[i].out))

\* C9 witness: a forced refresh failed without the marker and what was
\* raised is not the revocation error.
C9_Witness ==
    /\ last.call = "get_profile"
    /\ \E i \in DOMAIN last.log :
          /\ IsRefresh(last.log[i])
          /\ last.log[i].out # NoExc
          /\ ~Revoked(last.log[i].out)
          /\ last.log[i].raised.type = "TransportError"

\* C10: right after every successful refresh the stored failure reason is
\* empty, and it is still empty when the call returns.
C10_SuccessClearsReason ==
    \A i \in DOMAIN last.log :
        (IsRefresh(last.log[i]) /\ last.log[i].out = NoExc)
        => (last.log[i].err_after = NoError /\ auth_error = NoError)

\* C10 witness: a refresh succeeded in a call that started with a stored reason.
C10_Witness ==
    /\ IsCall
    /\ last.err_before # NoError
    /\ \E i \in DOMAIN last.log : IsRefresh(last.log[i]) /\ last.log[i].out = NoExc
    /\ auth_error = NoError

\* ------------------------------------------------------- the freshness check
\* Seconds until the held credential expires, an absent expiry counting as 0.
Remaining(c, t) == IF c.expiry = << >> THEN 0 ELSE c.expiry[1] - t

\* The refresh calls the freshness check of the last call made.
ProactiveRefreshes(l) == Refreshes(Proactive(l.log))

\* C11: a held credential that is marked valid and expires more than 300
\* seconds from now makes _ensure_valid_token perform no refresh call, and a
\* call of _ensure_valid_token alone then changes nothing in the guard.
C11_FreshTokenNoRefresh ==
    [][ (/\ last'.call \in {"ensure_fresh", "get_profile"}
         /\ creds # << >>
         /\ creds[1].valid
         /\ creds[1].expiry # << >>
         /\ creds[1].expiry[1] - now > SafetyMargin)
        => /\ ProactiveRefreshes(last') = << >>
           /\ last'.call = "ensure_fresh" =>
                 /\ last'.exc = NoExc
                 /\ last'.log = << >>
                 /\ creds' = creds /\ auth_error' = auth_error
                 /\ service' = service /\ secrets_data' = secrets_data
      ]_vars

\* C11 witness: _ensure_valid_token returned on a valid credential with more
\* than 300 seconds left, without any refresh.
C11_Witness ==
    /\ last.call = "ensure_fresh"
    /\ creds # << >> /\ creds[1].valid /\ creds[1].expiry # << >>
    /\ creds[1].expiry[1] - now > SafetyMargin
    /\ last.log = << >> /\ last.exc = NoExc

\* C12: a held credential whose expiry lies in the past makes
\* _ensure_valid_token perform exactly one refresh call, succeed or fail.
C12_ExpiredTokenOneRefresh ==
    [][ (/\ last'.call \in {"ensure_fresh", "get_profile"}
         /\ creds # << >>
         /\ creds[1].expiry # << >>
         /\ creds[1].expiry[1] < now)
        => Len(ProactiveRefreshes(last')) = 1
      ]_vars

\* C12 witness: _ensure_valid_token made one refresh call for an expired
\* credential still marked valid; the refresh failed, so the credential shown
\* is the one the call found.
C12_Witness ==
    /\ last.call = "ensure_fresh"
    /\ creds # << >> /\ creds[1].valid /\ creds[1].expiry # << >>
    /\ creds[1].expiry[1] < now
    /\ Len(Refreshes(last.log)) = 1
    /\ last.log[1].out # NoExc

\* C13: _ensure_valid_token makes its refresh call exactly when the held
\* credential is marked invalid or has fewer than 300 seconds left, an absent
\* expiry counting as 0 seconds; otherwise it makes none.
C13_RefreshExactlyWhenDue ==
    [][ (last'.call \in {"ensure_fresh", "get_profile"} /\ creds # << >>)
        => /\ Len(ProactiveRefreshes(last')) <= 1
           /\ (Len(ProactiveRefreshes(last')) = 1)
              <=> (~creds[1].valid \/ Remaining(creds[1], now) < SafetyMargin)
      ]_vars

\* C13 witness: a credential marked valid with 30 seconds left was refreshed
\* (the refresh failed, so the credential shown is the one the call found).
C13_Witness ==
    /\ last.call = "ensure_fresh"
    /\ creds # << >> /\ creds[1].valid /\ creds[1].expiry # << >>
    /\ creds[1].expiry[1] - now = 30
    /\ Len(Refreshes(last.log)) = 1
    /\ last.log[1].out # NoExc

\* C14: without credential material _ensure_valid_token raises GmailAuthError
\* carrying the stored reason when there is one, and otherwise returns; in
\* both cases it makes no refresh call and changes nothing in the guard.
C14_NoCredentials ==
    [][ (last'.call = "ensure_fresh" /\ creds = << >>)
        => /\ last'.log = << >>
           /\ creds' = creds /\ auth_error' = auth_error
           /\ service' = service /\ secrets_data' = secrets_data
           /\ IF auth_error # NoError
              THEN last'.exc = GmailAuthError(auth_error)
              ELSE last'.exc = NoExc /\ last'.ret = "None"
      ]_vars

\* C14 witness: the stored reason was raised by a guard holding no credential.
C14_Witness ==
    /\ last.call = "ensure_fresh"
    /\ creds = << >>
    /\ auth_error # NoError
    /\ last.exc = GmailAuthError(auth_error)
    /\ last.log = << >>

\* C15: when the secrets file cannot be used, and in particular when its gmail
\* section lacks one of refresh_token, client_id, client_secret, construction
\* raises GmailAuthError before any refresh call is made and no client (and no
\* credential object) comes into being.
C15_MissingFieldNoNetwork ==
    (last.call = "construct" /\ (args[1] # "ok" \/ Required \ args[2] # {}))
    => /\ last.exc.type = "GmailAuthError"
       /\ (args[1] = "ok" => last.exc = GmailAuthError(<<"Missing required fields in secrets:">>))
       /\ last.log = << >>
       /\ ~constructed
       /\ creds = << >>

\* C15 witness: construction from a file that lacks only client_secret.
C15_Witness ==
    /\ last.call = "construct"
    /\ args = <<"ok", {"refresh_token", "client_id"}>>
    /\ last.exc = GmailAuthError(<<"Missing required fields in secrets:">>)
    /\ last.log = << >>

\* C16: when the first invocation of the operation fails with anything but a
\* 401 (403, 429, 500, a non-HTTP exception), _execute_with_retry invokes the
\* operation that one time only, forces no refresh, and the call returns None
\* without raising.
C16_NonAuthFailureNotRetried ==
    LET d == Dispatch(last.log)
    IN (last.call = "get_profile" /\ d # << >> /\ d[1].out # NoExc /\ ~Is401(d[1].out))
       => /\ Len(d) = 1
          /\ last.ret = "None"
          /\ last.exc = NoExc

\* C16 witness: the operation answered 403 and the call returned None.
C16_Witness ==
    LET d == Dispatch(last.log)
    IN /\ last.call = "get_profile"
       /\ Len(d) = 1
       /\ d[1].out = HttpError(403)
       /\ last.ret = "None" /\ last.exc = NoExc

\* ------------------------------------------------------ the detection ladder
\* The call log shows `ykman info` exiting non-zero with the
\* transport-unavailable signature on stderr.
InfoFailedNoTransport(log) ==
    \E i \in DOMAIN log :
        /\ log[i].cmd = "ykman info"
        /\ log[i].out.kind = "exit"
        /\ TransportUnavailable(log[i].out.stderr)

\* The call log shows `ykman info` exiting non-zero without that signature.
InfoFailedOtherwise(log) ==
    \E i \in DOMAIN log :
        /\ log[i].cmd = "ykman info"
        /\ log[i].out.kind = "exit"
        /\ ~TransportUnavailable(log[i].out.stderr)

InfoSucceeded(log) == \E i \in DOMAIN log : log[i] = Probe("ykman info", ProcOk)

PluginProbed(log) ==
    \E i \in DOMAIN log :
        log[i].cmd \in {"age-plugin-yubikey --version", "age-plugin-yubikey.exe --version"}

\* C17 as stated: under WSL2, once _check_yubikey_present has returned False
\* because `ykman info` failed with the transport-unavailable signature, the
\* next call detects again and returns True when age-plugin-yubikey.exe now
\* answers its version probe (ykman info failing as before).
C17_TransportFailureNotCached ==
    [][ (/\ yk_last.call = "device_present"
         /\ IsWsl2(host)
         /\ yk_last.ret = <<FALSE>>
         /\ InfoFailedNoTransport(yk_last.log)
         /\ yk_last'.call = "device_present"
         /\ yk_last'.env.ykman_info = yk_last.env.ykman_info
         /\ yk_last'.env.plugin_exe = ProcOk)
        => (yk_last'.ret = <<TRUE>> /\ yk_last'.log # << >>)
      ]_vars

\* C18: under WSL2, when `ykman info` is run and fails with the
\* transport-unavailable signature and age-plugin-yubikey.exe answers its
\* version probe, _check_yubikey_present returns True.
C18_LadderReachesPlugin ==
    (/\ yk_last.call = "device_present"
     /\ IsWsl2(yk_last.host)
     /\ InfoFailedNoTransport(yk_last.log)
     /\ yk_last.env.plugin_exe = ProcOk)
    => (yk_last.ret = <<TRUE>> /\ yubikey_present = <<TRUE>>)

\* C18 witness: such a call, made with no Linux build of the plugin installed.
C18_Witness ==
    /\ yk_last.call = "device_present"
    /\ IsWsl2(yk_last.host)
    /\ InfoFailedNoTransport(yk_last.log)
    /\ yk_last.env.plugin_exe = ProcOk
    /\ yk_last.env.plugin = ProcNotFound
    /\ yk_last.ret = <<TRUE>>

\* C19 as stated: in the same setup, a failing age-plugin-yubikey.exe version
\* probe makes _check_yubikey_present return False.
C19_FailingExeMeansAbsent ==
    (/\ yk_last.call = "device_present"
     /\ IsWsl2(yk_last.host)
     /\ InfoFailedNoTransport(yk_last.log)
     /\ yk_last.env.plugin_exe # ProcOk)
    => yk_last.ret = <<FALSE>>

\* C19 amended: in the same setup with a failing age-plugin-yubikey.exe
\* version probe, the Linux build age-plugin-yubikey is probed next, and
\* _check_yubikey_present returns False exactly when that probe fails too.
C19_BothBuildsFailMeansAbsent ==
    (/\ yk_last.call = "device_present"
     /\ IsWsl2(yk_last.host)
     /\ InfoFailedNoTransport(yk_last.log)
     /\ yk_last.env.plugin_exe # ProcOk)
    => /\ yk_last.log[Len(yk_last.log)] =
             Probe("age-plugin-yubikey --version", yk_last.env.plugin)
       /\ yk_last.ret = IF yk_last.env.plugin = ProcOk THEN <<TRUE>> ELSE <<FALSE>>

\* C19 witness: the .exe is there but exits non-zero, the Linux build is
\* missing, and the answer is False.
C19_Witness ==
    /\ yk_last.call = "device_present"
    /\ IsWsl2(yk_last.host)
    /\ InfoFailedNoTransport(yk_last.log)
    /\ yk_last.env.plugin_exe = ProcExit(<< >>)
    /\ yk_last.env.plugin = ProcNotFound
    /\ yk_last.ret = <<FALSE>>

\* C20: outside WSL2 _check_yubikey_present never probes the plugin, and it
\* answers True only with ykman installed and either `ykman info` exiting 0
\* in this call or a True remembered from a call where it did; on every host
\* a `ykman info` failure without the transport-unavailable signature gives
\* False.
C20_NativeNeedsInfo ==
    [][ yk_last'.call = "device_present" =>
          /\ ~IsWsl2(host) =>
                /\ ~PluginProbed(yk_last'.log)
                /\ yk_last'.ret = <<TRUE>> =>
                      /\ ykman_available' = <<TRUE>>
                      /\ InfoSucceeded(yk_last'.log) \/ yubikey_present = <<TRUE>>
                /\ (yubikey_present # <<TRUE>> /\ yubikey_present' = <<TRUE>>)
                      => InfoSucceeded(yk_last'.log)
          /\ InfoFailedOtherwise(yk_last'.log) =>
                (yk_last'.ret = <<FALSE>> /\ yubikey_present' = <<FALSE>>)
      ]_vars

\* C20 witness: outside WSL2 `ykman info` failed with the transport-unavailable
\* signature while the plugin's .exe build would have answered, and the
\* answer is False without any plugin probe.
C20_Witness ==
    /\ yk_last.call = "device_present"
    /\ ~IsWsl2(yk_last.host)
    /\ InfoFailedNoTransport(yk_last.log)
    /\ yk_last.env.plugin_exe = ProcOk
    /\ ~PluginProbed(yk_last.log)
    /\ yk_last.ret = <<FALSE>>

\* ------------------------------------------- wrapping, PINs and the mock
\* The exception is a YubiKeyError (the layer's KeyEncryptionError).
IsYubiKeyError(e) == e.type = "YubiKeyError"

IsKelCall(c) == kel_last.call = c

\* The operations that choose between the two builds of the plugin.
PluginOps == {"version", "list", "identity"}

\* The positions in the log where the plugin was run for the operation.
TriedAt(log, op) ==
    {i \in DOMAIN log : log[i].cmd \in {PluginCmd(NativeBuild, op), PluginCmd(ExeBuild, op)}}

\* The first of them.
FirstTried(log, op) == CHOOSE i \in TriedAt(log, op) : \A j \in TriedAt(log, op) : i <= j

\* The build matching the detected environment.
MatchingBuild(h) == IF IsWsl2(h) THEN ExeBuild ELSE NativeBuild

\* The log entry is a `--list` run that exited 0 without a recipient line.
Untagged(e) ==
    /\ e.cmd \in {PluginCmd(NativeBuild, "list"), PluginCmd(ExeBuild, "list")}
    /\ e.out.kind = "ok"
    /\ RecipientIn(e.out.stdout) = << >>

\* The log entry is a `--list` run that printed a recipient.
Tagged(e) ==
    /\ e.cmd \in {PluginCmd(NativeBuild, "list"), PluginCmd(ExeBuild, "list")}
    /\ e.out.kind = "ok"
    /\ RecipientIn(e.out.stdout) # << >>

\* The call ran the given command.
RanCmd(log, cmd) == \E i \in DOMAIN log : log[i].cmd = cmd

\* C21 as stated: of two checks of the same tool (ykman, the plugin) made
\* one after the other on a manager, the later one launches no process and
\* returns what the earlier one returned.
C21_ToolChecksMemoized ==
    [][ \A c \in {"check_ykman_installed", "check_age_plugin_installed"} :
          (kel_last.call = c /\ kel_last'.call = c)
             => (kel_last'.log = << >> /\ kel_last'.ret = kel_last.ret)
      ]_vars

\* C22 as stated: when decrypt_age_key returns or raises, the identity file
\* it created is gone, so no identity file is ever on disk between calls.
C22_NoIdentityFileLeft ==
    /\ identity_files = 0
    /\ IsKelCall("decrypt_age_key") => LeftBehind(kel_last.log) = 0

\* C23 as stated: with the feature disabled, or with the device known to be
\* absent, encrypt_age_key and decrypt_age_key run neither the plugin nor
\* age (nor anything else).
C23_GatedByFlagAndPresence ==
    (/\ kel_last.call \in {"encrypt_age_key", "decrypt_age_key"}
     /\ ~yubikey_enabled \/ kel_last.present_before = <<FALSE>>)
    => kel_last.log = << >>

\* C24 as stated: decrypt_age_key on the ciphertext encrypt_age_key returned
\* for a key, with the token answering age, returns that key; the mock
\* returns for every ciphertext it issued the key it was issued for, however
\* many were issued since; and the mock raises YubiKeyError on a ciphertext
\* it never issued.
C24_RoundTrip ==
    /\ (/\ IsKelCall("decrypt_age_key")
        /\ wrapped # << >>
        /\ kel_last.input = wrapped[1].ct
        /\ \E i \in DOMAIN kel_last.log :
              kel_last.log[i].cmd = "age -d -i" /\ kel_last.log[i].out.kind = "ok")
       => (kel_last.exc = NoExc /\ kel_last.ret = <<wrapped[1].key>>)
    /\ mock_last.call = "decrypt_age_key" =>
          /\ \A p \in mock_issued :
                p.ct = mock_last.input
                   => (mock_last.exc = NoExc /\ mock_last.ret = <<p.key>>)
          /\ mock_last.input \notin {p.ct : p \in mock_issued}
                => IsYubiKeyError(mock_last.exc)

\* C25 as stated: whenever a call runs the plugin for an operation (its
\* version probe, --list, --identity), the first build it runs is the one
\* matching the host: .exe under WSL2, the Linux build elsewhere.
C25_MatchingBuildFirst ==
    \A op \in PluginOps :
        TriedAt(kel_last.log, op) # {}
           => kel_last.log[FirstTried(kel_last.log, op)].cmd
                 = PluginCmd(MatchingBuild(host), op)

\* C26 as stated: in encrypt_age_key and decrypt_age_key, for each of the
\* plugin's operations, the second build is run only if the first was not
\* found, and a first build that exits non-zero makes the call fail.
C26_FallbackOnlyWhenNotFound ==
    \A op \in PluginOps :
        LET tried == TriedAt(kel_last.log, op)
        IN tried # {} =>
              LET first == kel_last.log[FirstTried(kel_last.log, op)]
              IN /\ Cardinality(tried) > 1 => first.out.kind = "notfound"
                 /\ first.out.kind = "exit" => kel_last.exc # NoExc

\* C27: in encrypt_age_key a --list run that exits 0 without a line starting
\* with age1yubikey1 is the last thing the call does (no other build, no
\* age) and the call raises YubiKeyError; a non-zero exit of age raises
\* YubiKeyError; and a ciphertext is returned exactly when nothing was
\* raised, which takes a --list run that printed the recipient and an age
\* run that exited 0, the ciphertext being encrypted to that recipient.
C27_WrapFailures ==
    IsKelCall("encrypt_age_key") =>
       LET log == kel_last.log
       IN /\ \A i \in DOMAIN log :
                Untagged(log[i]) => (i = Len(log) /\ IsYubiKeyError(kel_last.exc))
          /\ (\E i \in DOMAIN log : log[i].cmd = "age -r" /\ log[i].out.kind = "exit")
                => IsYubiKeyError(kel_last.exc)
          /\ (kel_last.ret # << >>) <=> (kel_last.exc = NoExc)
          /\ kel_last.ret # << >> =>
                /\ \E i \in DOMAIN log : Tagged(log[i])
                /\ log[Len(log)] = Probe("age -r", ProcOk)
                /\ kel_last.ret[1].to = SlotRecipient

\* C27 witness: outside WSL2 the Linux build lists no recipient line; the
\* call stops there with YubiKeyError, the .exe build and age not run.
C27_Witness ==
    /\ IsKelCall("encrypt_age_key")
    /\ ~IsWsl2(host)
    /\ Untagged(kel_last.log[Len(kel_last.log)])
    /\ Cardinality(TriedAt(kel_last.log, "list")) = 1
    /\ ~RanCmd(kel_last.log, "age -r")
    /\ kel_last.exc = YubiKeyError(<<"No recipient found in", NativeBuild, "output">>)

\* The operations gated by is_available().
GatedCalls == {"verify_pin", "change_pin", "get_slot_info"}

\* C28 as stated: verify_pin, change_pin and get_slot_info raise YubiKeyError
\* when the device is absent; get_slot_info raises it when `ykman piv info`
\* exits non-zero; and a missing ykman makes them raise it too, except
\* where verify_pin answers True under WSL2.
C28_AbsenceIsAnError ==
    kel_last.call \in GatedCalls =>
       /\ (yubikey_enabled /\ kel_last.available = <<FALSE>>)
             => IsYubiKeyError(kel_last.exc)
       /\ (\E i \in DOMAIN kel_last.log :
              /\ kel_last.log[i].cmd = "ykman piv info slot"
              /\ kel_last.log[i].out.kind = "exit")
             => IsYubiKeyError(kel_last.exc)
       /\ (/\ ykman_available = <<FALSE>>
           /\ ~(IsKelCall("verify_pin") /\ IsWsl2(host) /\ kel_last.ret = <<TRUE>>))
             => IsYubiKeyError(kel_last.exc)

C30_ChangePinFailsWithoutYkman ==
    (IsKelCall("change_pin") /\ IsWsl2(host) /\ ykman_available = <<FALSE>>)
    => (IsYubiKeyError(kel_last.exc) /\ kel_last.ret = << >>)

\* ---------------------------------------------------------------- diagnostics
\* The last call was get_diagnostics.
IsDiagCall == diag_last.call = "get_diagnostics"

\* The report of the last call.
DiagReport == diag_last.ret[1]

\* C31: get_diagnostics returns a report and raises nothing, whatever the
\* probes answer (each tool found, not found or exiting non-zero, on either
\* kind of host), and the report always has a yubikey_detected entry.
C31_ReportAlwaysReturned ==
    IsDiagCall =>
        /\ diag_last.exc = NoExc
        /\ diag_last.ret # << >>
        /\ DiagReport.yubikey_detected \in {<<TRUE>>, <<FALSE>>}

\* Reached: a manager that found ykman earlier cannot start `ykman info`
\* any more; the failure becomes the report's "error" entry.
C31_Witness ==
    /\ IsDiagCall
    /\ diag_last.env.ykman_info = ProcNotFound
    /\ RanCmd(diag_last.log, "ykman info")
    /\ DiagReport.error # << >>
    /\ DiagReport.yubikey_detected = <<FALSE>>

\* The three signals of the host, as is_wsl2 is documented to read them.
KernelVersionFileMatches(h) ==
    /\ h.proc_version # << >>
    /\ \E i \in 1..Len(h.proc_version[1]) :
          h.proc_version[1][i] \in {"microsoft", "Microsoft"}

KernelReleaseMatches(h) ==
    /\ h.uname # << >>
    /\ \E i \in 1..Len(h.uname[1]) : h.uname[1][i] \in {"microsoft", "Microsoft"}

MarkerVariableSet(h) == h.wsl_distro_name # << >>

\* C32: is_wsl2() answers True when at least one of the three signals
\* matches and False when none does; a signal that cannot be read counts
\* as absent and raises nothing.
C32_AnySignalMeansWsl2 ==
    IsDiagCall =>
        /\ diag_last.exc = NoExc
        /\ DiagReport.wsl2_environment =
              << \/ KernelVersionFileMatches(diag_last.host)
                 \/ KernelReleaseMatches(diag_last.host)
                 \/ MarkerVariableSet(diag_last.host) >>

\* Reached: /proc/version cannot be read, `uname -r` is the only signal that
\* matches, and the host is taken for WSL2.
C32_Witness ==
    /\ IsDiagCall
    /\ diag_last.host.proc_version = << >>
    /\ KernelReleaseMatches(diag_last.host)
    /\ ~MarkerVariableSet(diag_last.host)
    /\ DiagReport.wsl2_environment = <<TRUE>>

\* C37: on a fresh manager the yubikey_detected entry of get_diagnostics
\* equals what _check_yubikey_present returns for the same host and probe
\* outcomes.
C37_DetectedEqualsLadder ==
    (IsDiagCall /\ diag_last.fresh /\ diag_last.ladder # << >>) =>
        DiagReport.yubikey_detected = diag_last.ladder

\* ------------------------------------------------- the transient identity file
\* The positions in the log where the entry is found.
At(log, e) == {i \in DOMAIN log : log[i] = e}

\* The positions where the plugin's identity operation answered.
IdentityResolvedAt(log) ==
    {i \in TriedAt(log, "identity") : log[i].out.kind = "ok"}

\* The positions where age was started to decrypt.
DecryptStartedAt(log) == {i \in DOMAIN log : log[i].cmd = "age -d -i"}

\* C35 as stated: in decrypt_age_key the identity file is created after the
\* identity descriptor was resolved and before age is started, and it is
\* removed, after age, before the call returns or raises; when the plugin
\* check or the identity resolution fails no identity file is created.
C35_IdentityFileOnlyAroundDecrypt ==
    IsKelCall("decrypt_age_key") =>
        LET log == kel_last.log
        IN /\ \A c \in At(log, FileCreated) :
                 /\ \E r \in IdentityResolvedAt(log) : r < c
                 /\ \A d \in DecryptStartedAt(log) : c < d
                 /\ \E u \in At(log, FileUnlinked) :
                       /\ c < u
                       /\ \A d \in DecryptStartedAt(log) : d < u
           /\ IdentityResolvedAt(log) = {} => At(log, FileCreated) = {}

\* ------------------------------------------------- a failed proactive refresh
\* The refresh call of the freshness check of the last call failed.
ProactiveRefreshFailed ==
    /\ ProactiveRefreshes(last) # << >>
    /\ ProactiveRefreshes(last)[1].raised # NoExc

\* C36: when the refresh made by _ensure_valid_token inside get_profile
\* fails, get_profile does not invoke the wrapped operation, returns None,
\* raises nothing, and _auth_error holds the refresh failure.
C36_FailedProactiveRefreshStopsCall ==
    (last.call = "get_profile" /\ ProactiveRefreshFailed) =>
        /\ Ops(last.log) = << >>
        /\ last.ret = "None"
        /\ last.exc = NoExc
        /\ auth_error = StoredReason(ProactiveRefreshes(last)[1].raised)

\* Reached: get_profile found the token due, the refresh failed for a reason
\* other than revocation, and the call ended there.
C36_Witness ==
    /\ last.call = "get_profile"
    /\ ProactiveRefreshFailed
    /\ ~Revoked(last.log[1].out)
    /\ Len(last.log) = 1
    /\ last.ret = "None"
    /\ auth_error = StoredReason(last.log[1].raised)

\* ------------------------------------------------------------ the secrets file
\* The variable that wins: the first when it is set, otherwise the second.
Winner(environ) ==
    IF Truthy(environ.KIMI_VAULT_SECRETS)
    THEN environ.KIMI_VAULT_SECRETS
    ELSE environ.KIMI_BOT_SECRETS

\* C33 as stated: without an explicit secrets path, an existing file named
\* by the winning override variable (KIMI_VAULT_SECRETS when set, otherwise
\* KIMI_BOT_SECRETS) is returned as the secrets file.
C33_OverrideVariablesResolve ==
    (/\ resolve_last.call = "resolve_secrets_file"
     /\ ~Truthy(resolve_last.secrets_file)
     /\ Truthy(Winner(resolve_last.environ[1]))
     /\ Winner(resolve_last.environ[1])[1] \in resolve_last.existing)
    => /\ resolve_last.exc = NoExc
       /\ resolve_last.ret = Winner(resolve_last.environ[1])

\* ------------------------------------------------------- the software identity
IsVaultCryptoError(e) == e.type = "VaultCryptoError"

\* C34: generate_key on a key file that exists raises VaultCryptoError and
\* leaves the private-key file and the public-key file as they are, no step
\* changes either file while the private-key file exists, and a generate_key
\* that returns leaves the private-key file with mode 0o600.
C34_KeyCreatedOnce ==
    [][ /\ key_file # << >> => (key_file' = key_file /\ key_pub_file' = key_pub_file)
        /\ crypto_last'.call = "generate_key" =>
              /\ key_file # << >> => IsVaultCryptoError(crypto_last'.exc)
              /\ crypto_last'.exc = NoExc =>
                    (key_file' # << >> /\ key_file'[1].mode = OwnerReadWrite)
      ]_vars

\* Reached: generate_key was called on an installed age with a key file
\* already there, refused, and both files are the ones it found.
C34_Witness ==
    /\ crypto_last.call = "generate_key"
    /\ crypto_last.key_before # << >>
    /\ RanCmd(crypto_last.log, "age --version")
    /\ crypto_last.exc = VaultCryptoError(<<"Key file already exists:">>)
    /\ key_file = crypto_last.key_before
    /\ key_pub_file = crypto_last.pub_before

\* C38: a decrypt without output file that fails leaves no temporary file:
\* with the input file or the key file missing none is created, and after a
\* non-zero exit of age the one created is removed before the error is raised.
C38_NoTempFileAfterFailure ==
    (/\ crypto_last.call = "decrypt"
     /\ crypto_last.output_file = << >>
     /\ crypto_last.exc # NoExc)
    => /\ temp_files = crypto_last.temp_before
       /\ (~crypto_last.input_exists \/ crypto_last.key_before = << >>)
             => ~RanCmd(crypto_last.log, "tempfile.mkstemp")
       /\ RanCmd(crypto_last.log, "age -d -i")
             => RanCmd(crypto_last.log, "output_path.unlink")

\* Reached: age exited non-zero after the temporary file was made; the file
\* was removed and VaultCryptoError raised.
C38_Witness ==
    /\ crypto_last.call = "decrypt"
    /\ crypto_last.output_file = << >>
    /\ RanCmd(crypto_last.log, "tempfile.mkstemp")
    /\ RanCmd(crypto_last.log, "age -d -i")
    /\ RanCmd(crypto_last.log, "output_path.unlink")
    /\ IsVaultCryptoError(crypto_last.exc)
    /\ temp_files = crypto_last.temp_before

====
